---- MODULE Spec2Model ----
(***************************************************************************)
(* Section box of the 3D viewer: the interactive SectionBox                *)
(* (src/unnamed/part_001) and the legacy SectionBox                        *)
(* (src/source/website/sectionbox.js); and, beside it, the building       *)
(* structure lookups (src/source/website/sidebar.js) and the structure     *)
(* panel of the navigator (src/unnamed/part_000).                          *)
(*                                                                         *)
(* Lengths are integers in units of 0.001 world units, so that the drag    *)
(* margin 0.01, the size floor 0.001 and the handle radius 0.1 are whole   *)
(* numbers.  Positions of overlay objects are kept doubled (pos2, units of *)
(* 0.0005) because a box center is (min+max)/2; handle scales are kept in  *)
(* units of 0.00001 (scale100) because the radius is size * 0.06.          *)
(* JavaScript doubles are modelled as exact numbers: rounding is not part  *)
(* of the model.  null is the empty sequence, a present value v is <<v>>.  *)
(***************************************************************************)
EXTENDS Integers, Sequences, FiniteSets, TLC

VARIABLES
    impl,            \* which SectionBox class the viewer was built with
    enabled,         \* this.enabled
    bounds,          \* this.bounds {minX..maxZ}
    box,             \* this.box (THREE.Box3)
    planes,          \* this.planes, six THREE.Plane
    edgesHelper,     \* this.edgesHelper (null or the wireframe object)
    faceHandles,     \* this.faceHandles (the handle meshes, in creation order)
    overlayChildren, \* this.overlayScene.children (object names)
    sceneVisible,    \* this.overlayScene.visible
    activeFace,      \* this.activeFace
    isDragging,      \* this.isDragging
    dragStartPoint,  \* this.dragStartPoint (component on the dragged axis)
    dragPlane,       \* this.dragPlane
    dragStartBound,  \* this.dragStartBound
    originalRender,  \* this.originalRender
    viewerRender,    \* viewer.Render, a function (see HostDraw, Bind, Wrapper)
    rendererClip,    \* renderer.clippingPlanes: which list object it refers to
    localClipping,   \* renderer.localClippingEnabled
    autoClear,       \* renderer.autoClear
    lgIsEnabled,     \* legacy: this.isEnabled
    lgBox,           \* legacy: this.box
    lgPlanes,        \* legacy: this.planes
    lgBoxHelper,     \* legacy: this.boxHelper
    clipBeforeEnable, \* the list renderer.clippingPlanes held when the section
                     \* box was last switched from disabled to enabled
    buildingStructure, \* buildingStructureModel.buildingStructure
    treeItems,       \* structure panel: the items in the tree, in creation order
    entityItemMap,   \* structure panel: this.entityItemMap
    selectedItem,    \* structure panel: this.selectedItem (index into treeItems)
    callbacks,       \* structure panel: this.callbacks
    last,            \* the operation that ran last, its argument and outcome
    nCalls           \* how many operations have run since construction

ivars == <<enabled, bounds, box, planes, edgesHelper, faceHandles,
           overlayChildren, sceneVisible, activeFace, isDragging,
           dragStartPoint, dragPlane, dragStartBound, originalRender>>
hvars == <<viewerRender, rendererClip, localClipping, autoClear>>
lvars == <<lgIsEnabled, lgBox, lgPlanes, lgBoxHelper>>
svars == <<buildingStructure, treeItems, entityItemMap, selectedItem,
           callbacks>>
vars == <<impl, ivars, hvars, lvars, svars, clipBeforeEnable, last, nCalls>>

Null == <<>>
Some(v) == <<v>>
Val(o) == o[1]

Min2(a, b) == IF a < b THEN a ELSE b
Max2(a, b) == IF a > b THEN a ELSE b

---------------------------------------------------------------------------
(* Numbers of the program, in model units. *)

One == 1000              \* 1 world unit (the unit box of the constructor)
DragMargin == 10         \* 0.01
SizeFloor == 1           \* 0.001
MinHandleRadius == 100   \* 0.1
HandleSizePct == 6       \* this.handleSize = 0.06
Infinity == 1000000000   \* +Infinity of an empty THREE.Box3

IsFiniteNum(v) == v > -Infinity /\ v < Infinity

Axes == <<"x", "y", "z">>
AxisSet == {"x", "y", "z"}

Vec3(a, b, c) == [x |-> a, y |-> b, z |-> c]

(* new THREE.Box3 (): min = +Infinity, max = -Infinity on every axis. *)
NewBox3 == [min |-> Vec3(Infinity, Infinity, Infinity),
            max |-> Vec3(-Infinity, -Infinity, -Infinity)]

(* THREE.Box3.isEmpty: max < min on some axis (a zero-volume box is not empty). *)
Box3IsEmpty(b) == \E a \in AxisSet : b.max[a] < b.min[a]

(* THREE.Box3.getSize: the zero vector for an empty box. *)
Box3GetSize(b) ==
    IF Box3IsEmpty(b) THEN Vec3(0, 0, 0)
    ELSE [a \in AxisSet |-> b.max[a] - b.min[a]]

(* THREE.Box3.getCenter, doubled: the zero vector for an empty box. *)
Box3GetCenter2(b) ==
    IF Box3IsEmpty(b) THEN Vec3(0, 0, 0)
    ELSE [a \in AxisSet |-> b.min[a] + b.max[a]]

(* new THREE.Plane (): normal (1,0,0), constant 0. *)
NewPlane == [normal |-> <<1, 0, 0>>, constant |-> 0]
SetComponents(nx, ny, nz, w) == [normal |-> <<nx, ny, nz>>, constant |-> w]

InitPlanes == [i \in 1..6 |-> NewPlane]

(* A constructor whose box has no thickness on X. *)
InitBoundsFlat == [minX |-> 0, maxX |-> 0, minY |-> 0, maxY |-> One,
                   minZ |-> 0, maxZ |-> One]

InitBounds == [minX |-> 0, maxX |-> One, minY |-> 0, maxY |-> One,
               minZ |-> 0, maxZ |-> One]



---------------------------------------------------------------------------
(* Internal methods of the interactive SectionBox, as functions of the     *)
(* fields they read.                                                       *)

edgeColor == 35020              \* 0x0088cc
handleColor == 35071            \* 0x0088ff
handleHoverColor == 16755200    \* 0xffaa00
handleActiveColor == 16733440   \* 0xff5500

(* SyncBoxFromBounds: the Box3 rebuilt from the six scalars. *)
SyncBoxFromBounds(bnd) ==
    [min |-> Vec3(bnd.minX, bnd.minY, bnd.minZ),
     max |-> Vec3(bnd.maxX, bnd.maxY, bnd.maxZ)]

(* SyncBoundsFromBox: the six scalars read from the Box3. *)
SyncBoundsFromBox(bx) ==
    [minX |-> bx.min.x, maxX |-> bx.max.x,
     minY |-> bx.min.y, maxY |-> bx.max.y,
     minZ |-> bx.min.z, maxZ |-> bx.max.z]

(* UpdatePlanes with the sign of the maxX constant slipped. *)
PlanesFromBoxSignSlip(bx) ==
    <<SetComponents( 1,  0,  0, -bx.min.x),
      SetComponents(-1,  0,  0, -bx.max.x),
      SetComponents( 0,  1,  0, -bx.min.y),
      SetComponents( 0, -1,  0,  bx.max.y),
      SetComponents( 0,  0,  1, -bx.min.z),
      SetComponents( 0,  0, -1,  bx.max.z)>>

(* The six setComponents calls of UpdatePlanes. *)
PlanesFromBox(bx) ==
    <<SetComponents( 1,  0,  0, -bx.min.x),
      SetComponents(-1,  0,  0,  bx.max.x),
      SetComponents( 0,  1,  0, -bx.min.y),
      SetComponents( 0, -1,  0,  bx.max.y),
      SetComponents( 0,  0,  1, -bx.min.z),
      SetComponents( 0,  0, -1,  bx.max.z)>>

(* UpdatePlanes: returns early, leaving the planes as they are, when the   *)
(* section box is not enabled.                                             *)
UpdatePlanes(en, bx, pl) == IF ~en THEN pl ELSE PlanesFromBox(bx)

(* The face table of CreateFaceHandles. *)
Faces ==
    <<[name |-> "minX", normal |-> <<-1, 0, 0>>, axis |-> "x", side |-> "min"],
      [name |-> "maxX", normal |-> << 1, 0, 0>>, axis |-> "x", side |-> "max"],
      [name |-> "minY", normal |-> <<0, -1, 0>>, axis |-> "y", side |-> "min"],
      [name |-> "maxY", normal |-> <<0,  1, 0>>, axis |-> "y", side |-> "max"],
      [name |-> "minZ", normal |-> <<0, 0, -1>>, axis |-> "z", side |-> "min"],
      [name |-> "maxZ", normal |-> <<0, 0,  1>>, axis |-> "z", side |-> "max"]>>

EdgesName == "SectionBoxEdges"

(* A freshly constructed THREE object: at the origin, scale 1, visible. *)
NewEdges ==
    [name |-> EdgesName, color |-> edgeColor, pos2 |-> Vec3(0, 0, 0),
     scale |-> Vec3(One, One, One), visible |-> TRUE]

NewHandle(face) ==
    [name |-> "Handle_" \o face.name, faceName |-> face.name,
     normal |-> face.normal, axis |-> face.axis, side |-> face.side,
     color |-> handleColor, pos2 |-> Vec3(0, 0, 0), scale100 |-> One * 100,
     visible |-> TRUE]

(* CreateFaceHandles: one handle per face, pushed in table order. *)
CreateFaceHandles(handles) ==
    handles \o [i \in 1..Len(Faces) |-> NewHandle(Faces[i])]

(* The size UpdateVisuals works with: getSize, each axis floored at 0.001. *)
VisualSize(bx) ==
    LET size == Box3GetSize(bx)
    IN  [a \in AxisSet |-> IF size[a] < SizeFloor THEN SizeFloor ELSE size[a]]

(* The handle radius of UpdateVisuals, in units of 0.00001. *)
ActualRadius100(bx) ==
    LET size == VisualSize(bx)
        handleRadius == Min2(size.x, Min2(size.y, size.z)) * HandleSizePct
    IN  Max2(handleRadius, MinHandleRadius * 100)

(* UpdateVisuals, the wireframe: position = center, scale = floored size. *)
UpdateVisualsEdges(bx, edges) ==
    IF edges = Null THEN edges
    ELSE Some([Val(edges) EXCEPT !.pos2 = Box3GetCenter2(bx),
                                 !.scale = VisualSize(bx)])

(* A handle put at the center of the box rather than on its face. *)
HandlePos2AtCenter(bx, h) == Box3GetCenter2(bx)

(* UpdateVisuals, the position of one handle: the center with the handle's *)
(* own axis replaced by box.min or box.max on that axis.                   *)
HandlePos2(bx, h) ==
    [Box3GetCenter2(bx) EXCEPT
        ![h.axis] = IF h.side = "min" THEN 2 * bx.min[h.axis]
                                      ELSE 2 * bx.max[h.axis]]

UpdateVisualsHandles(bx, handles) ==
    [i \in 1..Len(handles) |->
        [handles[i] EXCEPT !.pos2 = HandlePos2(bx, handles[i]),
                           !.scale100 = ActualRadius100(bx)]]

(* ShowVisuals: traverse visits the overlay scene and each of its children. *)
ShowVisualsEdges(visible, children, edges) ==
    IF edges # Null /\ \E i \in 1..Len(children) : children[i] = Val(edges).name
    THEN Some([Val(edges) EXCEPT !.visible = visible])
    ELSE edges

(* A ShowVisuals that can show the handles but never hides them. *)
ShowVisualsHandlesOnly(visible, children, handles) ==
    [i \in 1..Len(handles) |->
        IF visible /\ \E j \in 1..Len(children) : children[j] = handles[i].name
        THEN [handles[i] EXCEPT !.visible = visible]
        ELSE handles[i]]

ShowVisualsHandles(visible, children, handles) ==
    [i \in 1..Len(handles) |->
        IF \E j \in 1..Len(children) : children[j] = handles[i].name
        THEN [handles[i] EXCEPT !.visible = visible]
        ELSE handles[i]]

(* renderer.clippingPlanes is a reference: to the host's own list, to      *)
(* this.planes (so that UpdatePlanes shows through) or to a fresh [].      *)
ClipHost(list) == [ref |-> "host", list |-> list]
ClipPlanes == [ref |-> "planes", list |-> <<>>]

(* A disable that leaves the renderer pointing at this.planes. *)
ClipFreshStillPlanes == [ref |-> "planes", list |-> <<>>]

ClipFresh == [ref |-> "fresh", list |-> <<>>]

(* Functions that viewer.Render can refer to.  The host's own draw entry   *)
(* point is <<"host">>; f.bind (viewer) is a new function that calls f;    *)
(* the wrapper of HookRender is a closure over the section box: what it    *)
(* calls is whatever this.originalRender holds when it runs.               *)
HostDraw == <<"host">>
Bind(f) == <<"bind">> \o f
Wrapper == <<"wrapper">>

(* What viewer.Render () leaves behind in the renderer: the wrapper of     *)
(* HookRender draws the overlay when enabled and the overlay scene has     *)
(* children, and sets autoClear to true afterwards; the clip-plane list it *)
(* clears is put back.                                                     *)
OverlayDrawn(vr, en, children) == vr = Wrapper /\ en /\ Len(children) > 0
RenderAutoClear(vr, en, children, ac) ==
    IF OverlayDrawn(vr, en, children) THEN TRUE ELSE ac

(* One call of the function f: how many times the host's draw ran, how     *)
(* many times the overlay was drawn, whether the wrapper was entered while *)
(* it was already running, and whether a call of a null originalRender     *)
(* threw.  A re-entered wrapper is not followed further.                   *)
RECURSIVE CallRender(_, _, _, _, _)
CallRender(f, orig, en, children, inWrapper) ==
    IF Head(f) = "bind"
    THEN CallRender(Tail(f), orig, en, children, inWrapper)
    ELSE IF Head(f) = "host"
    THEN [host |-> 1, overlay |-> 0, reentered |-> FALSE, threw |-> FALSE]
    ELSE IF inWrapper
    THEN [host |-> 0, overlay |-> 0, reentered |-> TRUE, threw |-> FALSE]
    ELSE IF orig = Null
    THEN [host |-> 0, overlay |-> 0, reentered |-> FALSE, threw |-> TRUE]
    ELSE LET r == CallRender(Val(orig), orig, en, children, TRUE)
         IN  [r EXCEPT !.overlay =
                  @ + (IF en /\ Len(children) > 0 /\ ~r.reentered THEN 1 ELSE 0)]

(* The overlay part of the wrapper, on the renderer state st (the          *)
(* clip-plane list, autoClear, and the log of draws made so far): the list *)
(* is saved and replaced by [], autoClear is set to false, the overlay     *)
(* scene is drawn, autoClear is set to true and the saved list put back.   *)
WrapperOverlayNoRestore(st) ==
    [clip |-> ClipFresh, autoClear |-> TRUE,
     log |-> Append(st.log, [draw |-> "overlay", clip |-> ClipFresh,
                             autoClear |-> FALSE])]

WrapperOverlay(st) ==
    LET savedClippingPlanes == st.clip
    IN  [clip |-> savedClippingPlanes, autoClear |-> TRUE,
         log |-> Append(st.log, [draw |-> "overlay", clip |-> ClipFresh,
                                 autoClear |-> FALSE])]

(* One call of the function f on the renderer state st: the state it       *)
(* leaves, its log extended by every draw made, each with the clip-plane   *)
(* list and autoClear in force during the draw.                            *)
RECURSIVE RunRender(_, _, _, _, _, _)
RunRender(f, orig, en, children, st, inWrapper) ==
    IF Head(f) = "bind"
    THEN RunRender(Tail(f), orig, en, children, st, inWrapper)
    ELSE IF Head(f) = "host"
    THEN [st EXCEPT !.log = Append(@, [draw |-> "host", clip |-> st.clip,
                                       autoClear |-> st.autoClear])]
    ELSE IF inWrapper \/ orig = Null
    THEN st
    ELSE LET after == RunRender(Val(orig), orig, en, children, st, TRUE)
         IN  IF en /\ Len(children) > 0 THEN WrapperOverlay(after) ELSE after

(* A HookRender without the "already hooked" return. *)
HookRenderOriginalAgain(orig, vr) == Some(Bind(vr))

(* HookRender / UnhookRender. *)
HookRenderOriginal(orig, vr) == IF orig # Null THEN orig ELSE Some(Bind(vr))
HookRenderViewer(orig, vr) == IF orig # Null THEN vr ELSE Wrapper

(* An UnhookRender that forgets originalRender but leaves viewer.Render. *)
UnhookRenderViewerKept(orig, vr) == vr

UnhookRenderViewer(orig, vr) == IF orig # Null THEN Val(orig) ELSE vr
UnhookRenderOriginal(orig) == Null


---------------------------------------------------------------------------
(* Inputs explored.                                                        *)

(* Runs of at most MaxSteps operations after construction are explored. *)
MaxSteps == 5

(* Arguments of SetSectionBox: a well-formed box, and one that is inverted *)
(* on X and has zero thickness on Y.                                       *)
WideBounds == [minX |-> -One, maxX |-> One, minY |-> 0, maxY |-> 2 * One,
               minZ |-> 0, maxZ |-> One \div 2]
BadBounds == [minX |-> One, maxX |-> 0, minY |-> One \div 2,
              maxY |-> One \div 2, minZ |-> 0, maxZ |-> One]
BoundsInputs == {WideBounds, BadBounds}

(* Arguments of FitToBox and SetBox: null, an empty box (max < min on X),  *)
(* a single point (zero volume) and the cube (-2..2)^3.                    *)
EmptyBox == [min |-> Vec3(One, 0, 0), max |-> Vec3(0, One, One)]
PointBox == [min |-> Vec3(One \div 2, One \div 2, One \div 2),
             max |-> Vec3(One \div 2, One \div 2, One \div 2)]
CubeBox == [min |-> Vec3(-2 * One, -2 * One, -2 * One),
            max |-> Vec3(2 * One, 2 * One, 2 * One)]
BoxInputs == {Null, Some(EmptyBox), Some(PointBox), Some(CubeBox)}

(* marginFactor in percent; 0.05 is the default.  The calls of FitToBox    *)
(* explored, as <<boundingBox, marginFactor>>.                             *)
DefaultMarginPct == 5
FitCalls ==
    {<<Null, DefaultMarginPct>>, <<Some(EmptyBox), DefaultMarginPct>>,
     <<Some(PointBox), 10>>, <<Some(CubeBox), 0>>, <<Some(CubeBox), 10>>}

(* Mouse buttons: 1 = left, 3 = right. *)
Buttons == {1, 3}

(* The raycaster is the host's: what it reports is an input.  A press or a *)
(* hover move gets the list of handles the ray hits, nearest first: none,  *)
(* one, or one and behind it the handle of the opposite face.  The hit     *)
(* point on the nearest handle lies on its sphere, so its component on the *)
(* handle's axis is within the handle's radius (at least 0.1) of the       *)
(* handle's position.  A handle at a non-finite position cannot be hit.    *)
HitOffsets == {MinHandleRadius \div 2}

(* During a drag the ray either misses the drag plane (null) or meets it   *)
(* far below, far above, or back at the press point.                       *)
FarCoords == {-5 * One, 5 * One}
IsectInputs(startPoint) ==
    {Null} \cup {Some(c) : c \in FarCoords}
           \cup (IF startPoint = Null THEN {} ELSE {startPoint})

Hittable(handles) ==
    {i \in 1..Len(handles) :
        \A a \in AxisSet : IsFiniteNum(handles[i].pos2[a])}

HitLists(handles) ==
    {<<>>} \cup {<<i>> : i \in Hittable(handles)}
           \cup {l \in {<<i, j>> : i, j \in Hittable(handles)} :
                     /\ l[1] # l[2]
                     /\ handles[l[1]].axis = handles[l[2]].axis}

---------------------------------------------------------------------------
(* Construction.                                                           *)

Impls == {"interactive", "legacy"}

(* A clip plane the host may have installed before the section box. *)
HostPlane == SetComponents(0, 1, 0, 0)

(* The renderer's clip-plane list, as the renderer reads it. *)
ClippingPlanes ==
    IF rendererClip.ref = "planes"
    THEN (IF impl = "legacy" THEN lgPlanes ELSE planes)
    ELSE rendererClip.list

(* The list the renderer holds at the moment Enable switches the section   *)
(* box from disabled to enabled, just before Enable replaces it.           *)
ClipBeforeEnable(isEnabled, wasEnabled) ==
    IF isEnabled /\ ~wasEnabled THEN Some(ClippingPlanes) ELSE clipBeforeEnable

(* The record of a call: the operation, its argument, what it returned,    *)
(* and whether a drag was in progress when it was called.  For OnMouseDown *)
(* the argument is the list of handles the ray hits, the button and, when  *)
(* a handle is hit, how far from the handle's position the hit point lies. *)
Ran(op, arg, ret) ==
    [op |-> op, arg |-> arg, ret |-> ret, wasDragging |-> isDragging]

(* Every operation counts as one step of the run. *)
Tick == nCalls < MaxSteps /\ nCalls' = nCalls + 1

Init ==
    /\ impl \in Impls
    /\ enabled = FALSE
    /\ bounds = InitBounds
    /\ box = NewBox3
    /\ planes = InitPlanes
    /\ edgesHelper = Null
    /\ faceHandles = <<>>
    /\ overlayChildren = <<>>
    /\ sceneVisible = TRUE
    /\ activeFace = Null
    /\ isDragging = FALSE
    /\ dragStartPoint = Null
    /\ dragPlane = Null
    /\ dragStartBound = Null
    /\ originalRender = Null
    /\ viewerRender = HostDraw
    /\ rendererClip \in {ClipHost(<<>>), ClipHost(<<HostPlane>>)}
    /\ localClipping = FALSE
    /\ autoClear \in BOOLEAN
    /\ lgIsEnabled = FALSE
    /\ lgBox = NewBox3
    /\ lgPlanes = InitPlanes
    /\ lgBoxHelper = Null
    /\ clipBeforeEnable = Null
    /\ buildingStructure = Null
    /\ treeItems = <<>>
    /\ entityItemMap = <<>>
    /\ selectedItem = Null
    /\ callbacks = Null
    /\ last = Ran("constructor", Null, "void")
    /\ nCalls = 0

---------------------------------------------------------------------------
(* Data model API of the interactive SectionBox.                           *)

(* The object GetSectionBox returns. *)
SectionBoxOf(en, bnd) ==
    [enabled |-> en,
     minX |-> bnd.minX, maxX |-> bnd.maxX,
     minY |-> bnd.minY, maxY |-> bnd.maxY,
     minZ |-> bnd.minZ, maxZ |-> bnd.maxZ]

GetSectionBox ==
    /\ Tick
    /\ impl = "interactive"
    /\ last' = Ran("GetSectionBox", Null, SectionBoxOf(enabled, bounds))
    /\ UNCHANGED <<impl, svars, clipBeforeEnable, ivars, hvars, lvars>>

(* The tail shared by SetSectionBox, FitToBox, SetBox and UpdateDrag once  *)
(* bounds and box agree: UpdateVisuals, UpdatePlanes, viewer.Render.       *)
Resync(bnd, bx) ==
    /\ bounds' = bnd
    /\ box' = bx
    /\ edgesHelper' = UpdateVisualsEdges(bx, edgesHelper)
    /\ faceHandles' = UpdateVisualsHandles(bx, faceHandles)
    /\ planes' = UpdatePlanes(enabled, bx, planes)
    /\ autoClear' = RenderAutoClear(viewerRender, enabled, overlayChildren,
                                    autoClear)
    /\ UNCHANGED <<impl, svars, clipBeforeEnable, enabled, overlayChildren, sceneVisible, activeFace,
                   isDragging, dragStartPoint, dragPlane, dragStartBound,
                   originalRender, viewerRender, rendererClip, localClipping,
                   lvars>>

(* A SetSectionBox that puts each axis in order before storing it. *)
AssignBoundsOrdered(b) ==
    [minX |-> Min2(b.minX, b.maxX), maxX |-> Max2(b.minX, b.maxX),
     minY |-> Min2(b.minY, b.maxY), maxY |-> Max2(b.minY, b.maxY),
     minZ |-> Min2(b.minZ, b.maxZ), maxZ |-> Max2(b.minZ, b.maxZ)]

(* The six assignments of SetSectionBox. *)
AssignBounds(b) ==
    [minX |-> b.minX, maxX |-> b.maxX, minY |-> b.minY, maxY |-> b.maxY,
     minZ |-> b.minZ, maxZ |-> b.maxZ]

SetSectionBox(b) ==
    /\ Tick
    /\ impl = "interactive"
    /\ Resync(AssignBounds(b), SyncBoxFromBounds(AssignBounds(b)))
    /\ last' = Ran("SetSectionBox", b, "void")

(* A margin taken from half the size. *)
TimesFactorOfHalf(v, pct) == (v * pct) \div 200

(* size * marginFactor, the factor given in percent.  The boxes explored   *)
(* have sizes that make the product a whole number of model units.         *)
TimesFactor(v, pct) == (v * pct) \div 100

(* The bounds FitToBox assigns from a bounding box and a margin factor. *)
FitBounds(bb, pct) ==
    LET size == Box3GetSize(bb)
        margin == [a \in AxisSet |-> TimesFactor(size[a], pct)]
    IN  [minX |-> bb.min.x - margin.x, maxX |-> bb.max.x + margin.x,
         minY |-> bb.min.y - margin.y, maxY |-> bb.max.y + margin.y,
         minZ |-> bb.min.z - margin.z, maxZ |-> bb.max.z + margin.z]

(* A guard that also ignores a box of zero volume. *)
IgnoredBoxOrFlat(b) ==
    b = Null \/ \E a \in AxisSet : Val(b).max[a] <= Val(b).min[a]

(* The guard of FitToBox and of SetBox: a null or empty box is ignored. *)
IgnoredBox(b) == b = Null \/ Box3IsEmpty(Val(b))

FitToBox(boundingBox, pct) ==
    /\ Tick
    /\ impl = "interactive"
    /\ IF IgnoredBox(boundingBox)
       THEN UNCHANGED <<impl, svars, clipBeforeEnable, ivars, hvars, lvars>>
       ELSE Resync(FitBounds(Val(boundingBox), pct),
                   SyncBoxFromBounds(FitBounds(Val(boundingBox), pct)))
    /\ last' = Ran("FitToBox", <<boundingBox, pct>>, "void")

SetBox(b) ==
    /\ Tick
    /\ impl = "interactive"
    /\ IF IgnoredBox(b)
       THEN UNCHANGED <<impl, svars, clipBeforeEnable, ivars, hvars, lvars>>
       ELSE Resync(SyncBoundsFromBox(Val(b)), Val(b))
    /\ last' = Ran("SetBox", b, "void")


---------------------------------------------------------------------------
(* Enable, the render hook and the visuals.                                *)

(* CreateVisuals: nothing when the wireframe exists; otherwise the         *)
(* wireframe and the six handles are created, added to the overlay scene   *)
(* and placed by UpdateVisuals.                                            *)
CreateVisualsEdges(bx, edges) ==
    IF edges # Null THEN edges ELSE UpdateVisualsEdges(bx, Some(NewEdges))

CreateVisualsHandles(bx, edges, handles) ==
    IF edges # Null THEN handles
    ELSE UpdateVisualsHandles(bx, CreateFaceHandles(handles))

CreateVisualsChildren(edges, children) ==
    IF edges # Null THEN children
    ELSE children \o <<EdgesName>>
                  \o [i \in 1..Len(Faces) |-> NewHandle(Faces[i]).name]

(* A disable that leaves the drag flag as it is. *)
DraggingKeptOnDisable == isDragging

(* The else branch of Enable: this.isDragging = false. *)
DraggingAfterDisable == FALSE

(* An Enable that, on enabling, reads the bounds back from the Box. *)
EnableBodyFromBox(isEnabled) ==
    /\ impl = "interactive"
    /\ enabled' = isEnabled
    /\ IF isEnabled
       THEN /\ localClipping' = TRUE
            /\ rendererClip' = ClipPlanes
            /\ overlayChildren' =
                   CreateVisualsChildren(edgesHelper, overlayChildren)
            /\ edgesHelper' =
                   ShowVisualsEdges(TRUE, overlayChildren',
                                    CreateVisualsEdges(box, edgesHelper))
            /\ faceHandles' =
                   ShowVisualsHandles(TRUE, overlayChildren',
                       CreateVisualsHandles(box, edgesHelper, faceHandles))
            /\ sceneVisible' = TRUE
            /\ planes' = UpdatePlanes(isEnabled, box, planes)
            /\ originalRender' = HookRenderOriginal(originalRender, viewerRender)
            /\ viewerRender' = HookRenderViewer(originalRender, viewerRender)
            /\ UNCHANGED <<isDragging, activeFace>>
       ELSE /\ rendererClip' = ClipFresh
            /\ edgesHelper' =
                   ShowVisualsEdges(FALSE, overlayChildren, edgesHelper)
            /\ faceHandles' =
                   ShowVisualsHandles(FALSE, overlayChildren, faceHandles)
            /\ sceneVisible' = FALSE
            /\ isDragging' = DraggingAfterDisable
            /\ activeFace' = Null
            /\ viewerRender' = UnhookRenderViewer(originalRender, viewerRender)
            /\ originalRender' = UnhookRenderOriginal(originalRender)
            /\ UNCHANGED <<localClipping, overlayChildren, planes>>
    /\ autoClear' = RenderAutoClear(viewerRender', enabled', overlayChildren',
                                    autoClear)
    /\ clipBeforeEnable' = ClipBeforeEnable(isEnabled, enabled)
    /\ bounds' = (IF isEnabled THEN SyncBoundsFromBox(box) ELSE bounds)
    /\ UNCHANGED <<impl, svars, box, dragStartPoint, dragPlane,
                   dragStartBound, lvars>>

(* Enable (isEnabled), all of it but the record of the call. *)
EnableBody(isEnabled) ==
    /\ impl = "interactive"
    /\ enabled' = isEnabled
    /\ IF isEnabled
       THEN /\ localClipping' = TRUE
            /\ rendererClip' = ClipPlanes
            /\ overlayChildren' =
                   CreateVisualsChildren(edgesHelper, overlayChildren)
            /\ edgesHelper' =
                   ShowVisualsEdges(TRUE, overlayChildren',
                                    CreateVisualsEdges(box, edgesHelper))
            /\ faceHandles' =
                   ShowVisualsHandles(TRUE, overlayChildren',
                       CreateVisualsHandles(box, edgesHelper, faceHandles))
            /\ sceneVisible' = TRUE
            /\ planes' = UpdatePlanes(isEnabled, box, planes)
            /\ originalRender' = HookRenderOriginal(originalRender, viewerRender)
            /\ viewerRender' = HookRenderViewer(originalRender, viewerRender)
            /\ UNCHANGED <<isDragging, activeFace>>
       ELSE /\ rendererClip' = ClipFresh
            /\ edgesHelper' =
                   ShowVisualsEdges(FALSE, overlayChildren, edgesHelper)
            /\ faceHandles' =
                   ShowVisualsHandles(FALSE, overlayChildren, faceHandles)
            /\ sceneVisible' = FALSE
            /\ isDragging' = DraggingAfterDisable
            /\ activeFace' = Null
            /\ viewerRender' = UnhookRenderViewer(originalRender, viewerRender)
            /\ originalRender' = UnhookRenderOriginal(originalRender)
            /\ UNCHANGED <<localClipping, overlayChildren, planes>>
    /\ autoClear' = RenderAutoClear(viewerRender', enabled', overlayChildren',
                                    autoClear)
    /\ clipBeforeEnable' = ClipBeforeEnable(isEnabled, enabled)
    /\ UNCHANGED <<impl, svars, bounds, box, dragStartPoint, dragPlane,
                   dragStartBound, lvars>>

EnableSectionBox(en) ==
    /\ Tick
    /\ EnableBody(en)
    /\ last' = Ran("EnableSectionBox", en, "void")

Enable(isEnabled) ==
    /\ Tick
    /\ EnableBody(isEnabled)
    /\ last' = Ran("Enable", isEnabled, "void")

(* The host calls viewer.Render () itself (its render loop). *)
HostRender ==
    /\ Tick
    /\ LET after == RunRender(viewerRender, originalRender,
                              impl = "interactive" /\ enabled, overlayChildren,
                              [clip |-> rendererClip, autoClear |-> autoClear,
                               log |-> <<>>], FALSE)
       IN  /\ autoClear' = after.autoClear
           /\ rendererClip' = after.clip
    /\ last' = Ran("viewer.Render", Null,
                   CallRender(viewerRender, originalRender,
                              impl = "interactive" /\ enabled,
                              overlayChildren, FALSE))
    /\ UNCHANGED <<impl, svars, clipBeforeEnable, ivars, lvars, viewerRender,
                   localClipping>>

(* Dispose: the hook is removed, then the wireframe and the handles are    *)
(* taken out of the overlay scene and forgotten.                           *)
RemoveName(children, name) ==
    SelectSeq(children, LAMBDA c : c # name)

(* A Dispose that leaves the handles in the overlay scene. *)
RemoveHandlesNone(children, handles) == children

RECURSIVE RemoveHandles(_, _)
RemoveHandles(children, handles) ==
    IF handles = <<>> THEN children
    ELSE RemoveHandles(RemoveName(children, Head(handles).name), Tail(handles))

(* What Dispose does, in the order it does it: UnhookRender, then the      *)
(* wireframe (if there is one) and each handle disposed of and removed     *)
(* from the overlay scene.                                                 *)
DisposeSteps(edges, handles) ==
    <<"UnhookRender">>
        \o (IF edges # Null THEN <<Val(edges).name>> ELSE <<>>)
        \o [i \in 1..Len(handles) |-> handles[i].name]

(* A Dispose that also switches the section box off. *)
DisposeAndDisable ==
    /\ Tick
    /\ impl = "interactive"
    /\ viewerRender' = UnhookRenderViewer(originalRender, viewerRender)
    /\ originalRender' = UnhookRenderOriginal(originalRender)
    /\ overlayChildren' =
           RemoveHandles(IF edgesHelper # Null
                         THEN RemoveName(overlayChildren, Val(edgesHelper).name)
                         ELSE overlayChildren,
                         faceHandles)
    /\ edgesHelper' = Null
    /\ faceHandles' = <<>>
    /\ last' = Ran("Dispose", Null, DisposeSteps(edgesHelper, faceHandles))
    /\ enabled' = FALSE
    /\ UNCHANGED <<impl, svars, clipBeforeEnable, bounds, box, planes, sceneVisible,
                   activeFace, isDragging, dragStartPoint, dragPlane,
                   dragStartBound, rendererClip, localClipping, autoClear,
                   lvars>>

Dispose ==
    /\ Tick
    /\ impl = "interactive"
    /\ viewerRender' = UnhookRenderViewer(originalRender, viewerRender)
    /\ originalRender' = UnhookRenderOriginal(originalRender)
    /\ overlayChildren' =
           RemoveHandles(IF edgesHelper # Null
                         THEN RemoveName(overlayChildren, Val(edgesHelper).name)
                         ELSE overlayChildren,
                         faceHandles)
    /\ edgesHelper' = Null
    /\ faceHandles' = <<>>
    /\ last' = Ran("Dispose", Null, DisposeSteps(edgesHelper, faceHandles))
    /\ UNCHANGED <<impl, svars, clipBeforeEnable, enabled, bounds, box, planes, sceneVisible,
                   activeFace, isDragging, dragStartPoint, dragPlane,
                   dragStartBound, rendererClip, localClipping, autoClear,
                   lvars>>


---------------------------------------------------------------------------
(* Mouse interaction.                                                      *)

(* A hit point taken to be the handle's own position. *)
HitCoordAtHandle(h, off) == h.pos2[h.axis] \div 2

(* The hit point's component on the handle's own axis. *)
HitCoord(h, off) == (h.pos2[h.axis] \div 2) + off

SetColor(handles, i, color) ==
    [handles EXCEPT ![i] = [@ EXCEPT !.color = color]]

(* faceHandles.find (h => h.userData.faceName === face): the index of the  *)
(* first such handle, 0 when there is none.                                *)
FindHandle(handles, face) ==
    IF \E i \in 1..Len(handles) : handles[i].faceName = face
    THEN CHOOSE i \in 1..Len(handles) :
             /\ handles[i].faceName = face
             /\ \A j \in 1..(i - 1) : handles[j].faceName # face
    ELSE 0

(* StartDrag (handle, hitPoint), the handle given by its index. *)
StartDrag(i, point) ==
    /\ isDragging' = TRUE
    /\ activeFace' = Some(faceHandles[i].faceName)
    /\ dragStartPoint' = Some(point)
    /\ dragPlane' = Some([normal |-> "-cameraDir", coplanar |-> point])
    /\ dragStartBound' = Some(bounds[faceHandles[i].faceName])
    /\ faceHandles' = SetColor(faceHandles, i, handleActiveColor)
    /\ autoClear' = RenderAutoClear(viewerRender, enabled, overlayChildren,
                                    autoClear)
    /\ UNCHANGED <<impl, svars, clipBeforeEnable, enabled, bounds, box, planes, edgesHelper,
                   overlayChildren, sceneVisible, originalRender,
                   viewerRender, rendererClip, localClipping, lvars>>

(* An OnMouseDown that does not ask whether the section box is enabled. *)
OnMouseDownWhileDisabled(hits, off, button) ==
    /\ Tick
    /\ impl = "interactive"
    /\ IF Len(faceHandles) = 0 \/ button # 1
       THEN /\ hits = <<>>
            /\ UNCHANGED <<impl, svars, clipBeforeEnable, ivars, hvars, lvars>>
            /\ last' = Ran("OnMouseDown", <<hits, button, 0>>, FALSE)
       ELSE IF Len(hits) > 0
       THEN /\ StartDrag(hits[1], HitCoord(faceHandles[hits[1]], off))
            /\ last' = Ran("OnMouseDown", <<hits, button, off>>, TRUE)
       ELSE /\ UNCHANGED <<impl, svars, clipBeforeEnable, ivars, hvars, lvars>>
            /\ last' = Ran("OnMouseDown", <<hits, button, 0>>, FALSE)

OnMouseDown(hits, off, button) ==
    /\ Tick
    /\ impl = "interactive"
    /\ IF ~enabled \/ Len(faceHandles) = 0 \/ button # 1
       THEN /\ hits = <<>>
            /\ UNCHANGED <<impl, svars, clipBeforeEnable, ivars, hvars, lvars>>
            /\ last' = Ran("OnMouseDown", <<hits, button, 0>>, FALSE)
       ELSE IF Len(hits) > 0
       THEN /\ StartDrag(hits[1], HitCoord(faceHandles[hits[1]], off))
            /\ last' = Ran("OnMouseDown", <<hits, button, off>>, TRUE)
       ELSE /\ UNCHANGED <<impl, svars, clipBeforeEnable, ivars, hvars, lvars>>
            /\ last' = Ran("OnMouseDown", <<hits, button, 0>>, FALSE)

(* 'max' + axis.toUpperCase () or 'min' + axis.toUpperCase (). *)
ToUpperCase(axis) == [x |-> "X", y |-> "Y", z |-> "Z"][axis]
OppositeKey(h) ==
    IF h.side = "min" THEN "max" \o ToUpperCase(h.axis)
                      ELSE "min" \o ToUpperCase(h.axis)

(* A drag that puts the bound at the intersection itself, forgetting where *)
(* on the handle the pointer grabbed it.                                   *)
DragValueAtPointer(startBound, isect, startPoint) == isect

(* The unclamped value of UpdateDrag. *)
DragValue(startBound, isect, startPoint) == startBound + (isect - startPoint)

(* A clamp that stops at the opposite bound, without the margin. *)
ClampDragNoMargin(side, newValue, opposite) ==
    IF side = "min" THEN Min2(newValue, opposite)
                    ELSE Max2(newValue, opposite)

(* The clamp of UpdateDrag against the opposite bound. *)
ClampDrag(side, newValue, opposite) ==
    IF side = "min" THEN Min2(newValue, opposite - DragMargin)
                    ELSE Max2(newValue, opposite + DragMargin)

(* UpdateDrag: isect is null when the ray does not meet the drag plane.    *)
(* The outcome says where the method returned.                             *)
UpdateDragOutcome(isect) ==
    IF ~isDragging \/ activeFace = Null THEN "notDragging"
    ELSE IF isect = Null THEN "noIntersection"
    ELSE IF FindHandle(faceHandles, Val(activeFace)) = 0 THEN "noHandle"
    ELSE "written"

(* An UpdateDrag that puts the dragged bound back where the drag started   *)
(* when the ray misses the drag plane.                                     *)
UpdateDragSnapsBack(isect) ==
    IF UpdateDragOutcome(isect) = "noIntersection"
    THEN LET bnd == [bounds EXCEPT ![Val(activeFace)] = Val(dragStartBound)]
         IN  Resync(bnd, SyncBoxFromBounds(bnd))
    ELSE IF UpdateDragOutcome(isect) # "written"
    THEN UNCHANGED <<impl, svars, clipBeforeEnable, ivars, hvars, lvars>>
    ELSE LET handle == faceHandles[FindHandle(faceHandles, Val(activeFace))]
             newValue == DragValue(Val(dragStartBound), Val(isect),
                                   Val(dragStartPoint))
             clamped == ClampDrag(handle.side, newValue,
                                  bounds[OppositeKey(handle)])
             bnd == [bounds EXCEPT ![Val(activeFace)] = clamped]
         IN  Resync(bnd, SyncBoxFromBounds(bnd))

(* An UpdateDrag that moves the opposite face along with the dragged one. *)
UpdateDragMovesOpposite(isect) ==
    IF UpdateDragOutcome(isect) # "written"
    THEN UNCHANGED <<impl, svars, clipBeforeEnable, ivars, hvars, lvars>>
    ELSE LET handle == faceHandles[FindHandle(faceHandles, Val(activeFace))]
             newValue == DragValue(Val(dragStartBound), Val(isect),
                                   Val(dragStartPoint))
             clamped == ClampDrag(handle.side, newValue,
                                  bounds[OppositeKey(handle)])
             bnd == [bounds EXCEPT
                        ![Val(activeFace)] = clamped,
                        ![OppositeKey(handle)] =
                            @ + (clamped - bounds[Val(activeFace)])]
         IN  Resync(bnd, SyncBoxFromBounds(bnd))

(* An UpdateDrag that adds the pointer's travel to the bound as it is now, *)
(* not to the bound as it was at the press.                                *)
UpdateDragAccumulates(isect) ==
    IF UpdateDragOutcome(isect) # "written"
    THEN UNCHANGED <<impl, svars, clipBeforeEnable, ivars, hvars, lvars>>
    ELSE LET handle == faceHandles[FindHandle(faceHandles, Val(activeFace))]
             newValue == DragValue(bounds[Val(activeFace)], Val(isect),
                                   Val(dragStartPoint))
             clamped == ClampDrag(handle.side, newValue,
                                  bounds[OppositeKey(handle)])
             bnd == [bounds EXCEPT ![Val(activeFace)] = clamped]
         IN  Resync(bnd, SyncBoxFromBounds(bnd))

UpdateDrag(isect) ==
    IF UpdateDragOutcome(isect) # "written"
    THEN UNCHANGED <<impl, svars, clipBeforeEnable, ivars, hvars, lvars>>
    ELSE LET handle == faceHandles[FindHandle(faceHandles, Val(activeFace))]
             newValue == DragValue(Val(dragStartBound), Val(isect),
                                   Val(dragStartPoint))
             clamped == ClampDrag(handle.side, newValue,
                                  bounds[OppositeKey(handle)])
             bnd == [bounds EXCEPT ![Val(activeFace)] = clamped]
         IN  Resync(bnd, SyncBoxFromBounds(bnd))

(* EndDrag. *)
EndDrag ==
    /\ faceHandles' =
           IF activeFace # Null /\ FindHandle(faceHandles, Val(activeFace)) # 0
           THEN SetColor(faceHandles,
                         FindHandle(faceHandles, Val(activeFace)), handleColor)
           ELSE faceHandles
    /\ isDragging' = FALSE
    /\ activeFace' = Null
    /\ dragStartPoint' = Null
    /\ dragPlane' = Null
    /\ dragStartBound' = Null
    /\ autoClear' = RenderAutoClear(viewerRender, enabled, overlayChildren,
                                    autoClear)
    /\ UNCHANGED <<impl, svars, clipBeforeEnable, enabled, bounds, box, planes, edgesHelper,
                   overlayChildren, sceneVisible, originalRender,
                   viewerRender, rendererClip, localClipping, lvars>>

(* A hover that highlights the nearest hit handle without first putting    *)
(* every handle back to the default colour.                                *)
HoverColorsNoReset(handles, hits) ==
    [i \in 1..Len(handles) |->
        [handles[i] EXCEPT !.color =
            IF Len(hits) > 0 /\ hits[1] = i THEN handleHoverColor ELSE @]]

(* The hover branch of OnMouseMove: every handle back to the default       *)
(* colour, then the nearest hit handle highlighted.                        *)
HoverColors(handles, hits) ==
    [i \in 1..Len(handles) |->
        [handles[i] EXCEPT !.color =
            IF Len(hits) > 0 /\ hits[1] = i THEN handleHoverColor
                                            ELSE handleColor]]

(* OnMouseMove while dragging: the ray is tested against the drag plane. *)
OnMouseMoveDrag(isect) ==
    /\ Tick
    /\ impl = "interactive"
    /\ enabled /\ Len(faceHandles) # 0 /\ isDragging
    /\ UpdateDrag(isect)
    /\ last' = Ran("OnMouseMove", <<"drag", isect, UpdateDragOutcome(isect)>>,
                   TRUE)

(* OnMouseMove while not dragging: the ray is tested against the handles. *)
OnMouseMoveHover(hits) ==
    /\ Tick
    /\ impl = "interactive"
    /\ ~(enabled /\ Len(faceHandles) # 0 /\ isDragging)
    /\ IF ~enabled \/ Len(faceHandles) = 0
       THEN hits = <<>> /\ UNCHANGED <<impl, svars, clipBeforeEnable, ivars, hvars, lvars>>
       ELSE /\ faceHandles' = HoverColors(faceHandles, hits)
            /\ autoClear' = RenderAutoClear(viewerRender, enabled,
                                            overlayChildren, autoClear)
            /\ UNCHANGED <<impl, svars, clipBeforeEnable, enabled, bounds, box, planes, edgesHelper,
                           overlayChildren, sceneVisible, activeFace,
                           isDragging, dragStartPoint, dragPlane,
                           dragStartBound, originalRender, viewerRender,
                           rendererClip, localClipping, lvars>>
    /\ last' = Ran("OnMouseMove", <<"hover", hits, "none">>, FALSE)

(* An OnMouseUp that reports every release as handled. *)
OnMouseUpAlwaysHandled ==
    /\ Tick
    /\ impl = "interactive"
    /\ IF isDragging
       THEN EndDrag /\ last' = Ran("OnMouseUp", Null, TRUE)
       ELSE /\ UNCHANGED <<impl, svars, clipBeforeEnable, ivars, hvars, lvars>>
            /\ last' = Ran("OnMouseUp", Null, TRUE)

OnMouseUp ==
    /\ Tick
    /\ impl = "interactive"
    /\ IF isDragging
       THEN EndDrag /\ last' = Ran("OnMouseUp", Null, TRUE)
       ELSE /\ UNCHANGED <<impl, svars, clipBeforeEnable, ivars, hvars, lvars>>
            /\ last' = Ran("OnMouseUp", Null, FALSE)


---------------------------------------------------------------------------
(* The legacy SectionBox (source/website/sectionbox.js).  Its box helper   *)
(* is built on this.box itself, so the helper's box is always lgBox.       *)

LegacyEnable(isEnabled) ==
    /\ Tick
    /\ impl = "legacy"
    /\ lgIsEnabled' = isEnabled
    /\ IF isEnabled
       THEN /\ localClipping' = TRUE
            /\ rendererClip' = ClipPlanes
            /\ lgBoxHelper' = Some([visible |-> TRUE])
            /\ lgPlanes' = UpdatePlanes(isEnabled, lgBox, lgPlanes)
       ELSE /\ rendererClip' = ClipFresh
            /\ lgBoxHelper' = IF lgBoxHelper # Null
                              THEN Some([visible |-> FALSE])
                              ELSE lgBoxHelper
            /\ UNCHANGED <<localClipping, lgPlanes>>
    /\ last' = Ran("Legacy.Enable", isEnabled, "void")
    /\ clipBeforeEnable' = ClipBeforeEnable(isEnabled, lgIsEnabled)
    /\ UNCHANGED <<impl, svars, ivars, viewerRender, autoClear, lgBox>>

(* A legacy SetBox that stores the box and leaves the planes as they are. *)
LegacySetBoxKeepsPlanes(b) ==
    /\ Tick
    /\ impl = "legacy"
    /\ IF b = Null
       THEN /\ UNCHANGED <<impl, svars, clipBeforeEnable, ivars, hvars, lvars>>
            /\ last' = Ran("Legacy.SetBox", b, "TypeError")
       ELSE /\ lgBox' = Val(b)
            /\ lgPlanes' = lgPlanes
            /\ last' = Ran("Legacy.SetBox", b, "void")
            /\ UNCHANGED <<impl, svars, clipBeforeEnable, ivars, hvars, lgIsEnabled, lgBoxHelper>>

(* SetBox has no guard: box.copy (null) throws a TypeError before anything *)
(* is written, and an empty box is copied like any other.                  *)
LegacySetBox(b) ==
    /\ Tick
    /\ impl = "legacy"
    /\ IF b = Null
       THEN /\ UNCHANGED <<impl, svars, clipBeforeEnable, ivars, hvars, lvars>>
            /\ last' = Ran("Legacy.SetBox", b, "TypeError")
       ELSE /\ lgBox' = Val(b)
            /\ lgPlanes' = UpdatePlanes(lgIsEnabled, Val(b), lgPlanes)
            /\ last' = Ran("Legacy.SetBox", b, "void")
            /\ UNCHANGED <<impl, svars, clipBeforeEnable, ivars, hvars, lgIsEnabled, lgBoxHelper>>

---------------------------------------------------------------------------

Next ==
    \/ GetSectionBox
    \/ \E b \in BoundsInputs : SetSectionBox(b)
    \/ \E en \in BOOLEAN : EnableSectionBox(en)
    \/ \E c \in FitCalls : FitToBox(c[1], c[2])
    \/ \E en \in BOOLEAN : Enable(en)
    \/ \E b \in BoxInputs : SetBox(b)
    \/ \E hits \in HitLists(faceHandles), off \in HitOffsets, button \in Buttons :
           OnMouseDown(hits, off, button)
    \/ \E isect \in IsectInputs(dragStartPoint) : OnMouseMoveDrag(isect)
    \/ \E hits \in HitLists(faceHandles) : OnMouseMoveHover(hits)
    \/ OnMouseUp
    \/ Dispose
    \/ HostRender
    \/ \E en \in BOOLEAN : LegacyEnable(en)
    \/ \E b \in BoxInputs : LegacySetBox(b)

Spec == Init /\ [][Next]_vars

---------------------------------------------------------------------------
(* ScreenToNDC, a pure function of its two arguments.  Quotients are kept  *)
(* exact, as <<numerator, denominator>> with a positive denominator.       *)

RatDiv(a, b) == <<a, b>>
RatNeg(r) == <<-r[1], r[2]>>
RatTimes(r, k) == <<r[1] * k, r[2]>>
RatPlus(r, k) == <<r[1] + k * r[2], r[2]>>
RatEq(r, q) == r[1] * q[2] = q[1] * r[2]
RatLeq(r, q) == r[1] * q[2] <= q[1] * r[2]
RatOf(k) == <<k, 1>>

(* A ScreenToNDC that forgets to flip the vertical axis. *)
ScreenToNDCUnflipped(screenCoords, canvasSize) ==
    [x |-> RatPlus(RatTimes(RatDiv(screenCoords.x, canvasSize.width), 2), -1),
     y |-> RatPlus(RatTimes(RatDiv(screenCoords.y, canvasSize.height), 2), -1)]

ScreenToNDC(screenCoords, canvasSize) ==
    [x |-> RatPlus(RatTimes(RatDiv(screenCoords.x, canvasSize.width), 2), -1),
     y |-> RatPlus(RatTimes(RatNeg(RatDiv(screenCoords.y, canvasSize.height)), 2), 1)]

(* Canvases of 1 to MaxCanvas pixels a side, and pointer positions from    *)
(* one pixel outside the canvas to one pixel outside on the other side.    *)
MaxCanvas == 4
CanvasSizes == {[width |-> w, height |-> h] : w \in 1..MaxCanvas, h \in 1..MaxCanvas}
ScreenCoords(canvasSize) ==
    {[x |-> x, y |-> y] : x \in -1..(canvasSize.width + 1),
                          y \in -1..(canvasSize.height + 1)}

ScreenToNDCCall(screenCoords, canvasSize) ==
    /\ Tick
    /\ impl = "interactive"
    /\ last' = Ran("ScreenToNDC", <<screenCoords, canvasSize>>,
                   ScreenToNDC(screenCoords, canvasSize))
    /\ UNCHANGED <<impl, svars, clipBeforeEnable, ivars, hvars, lvars>>

NextNDC ==
    \E cs \in CanvasSizes : \E sc \in ScreenCoords(cs) : ScreenToNDCCall(sc, cs)

SpecNDC == Init /\ [][NextNDC]_vars

---------------------------------------------------------------------------
(* The building structure and its lookups (src/source/website/sidebar.js). *)
(* An id is a JavaScript number or a string of decimal digits; === tells   *)
(* the two apart.  A structure is [id, floors], a floor [id, zones], a     *)
(* zone [id]; floors and zones may be missing (null).                      *)

Num(n) == <<"number", n>>
Str(n) == <<"string", n>>
TypeOf(v) == v[1]

(* parseInt of a string of decimal digits. *)
ParseInt(str) == Num(str[2])

(* typeof entity.entityId === 'string' ? parseInt (entity.entityId)        *)
(*                                     : entity.entityId                   *)
EntityIdOf(entity) ==
    IF TypeOf(entity.entityId) = "string" THEN ParseInt(entity.entityId)
                                          ELSE entity.entityId

Entity(type, id) == [entityType |-> type, entityId |-> id]

FloorsOf(structure) ==
    IF structure.floors = Null THEN <<>> ELSE Val(structure.floors)
ZonesOf(floor) == IF floor.zones = Null THEN <<>> ELSE Val(floor.zones)
ZoneIds(floor) == {ZonesOf(floor)[i].id : i \in 1..Len(ZonesOf(floor))}

(* The floor branch of getExpressIdsForEntity: the first floor whose id    *)
(* is entityId, with its zones; nothing when there is no such floor.       *)
RECURSIVE FloorExpressIds(_, _)
FloorExpressIds(floors, entityId) ==
    IF floors = <<>> THEN {}
    ELSE IF Head(floors).id = entityId
    THEN {Head(floors).id} \cup ZoneIds(Head(floors))
    ELSE FloorExpressIds(Tail(floors), entityId)

(* getExpressIdsForEntity (entity), reading the structure of the model. *)
getExpressIdsForEntity(structure, entity) ==
    IF structure = Null \/ entity = Null THEN {}
    ELSE LET s == Val(structure)
             e == Val(entity)
             entityId == EntityIdOf(e)
         IN  IF e.entityType = "building"
             THEN {s.id}
                  \cup {FloorsOf(s)[i].id : i \in 1..Len(FloorsOf(s))}
                  \cup UNION {ZoneIds(FloorsOf(s)[i]) :
                                  i \in 1..Len(FloorsOf(s))}
             ELSE IF e.entityType = "floor"
             THEN FloorExpressIds(FloorsOf(s), entityId)
             ELSE IF e.entityType = "zone"
             THEN {entityId}
             ELSE {}

(* The loop of getEntityForExpressId over the floors: of each floor, the   *)
(* zones first, then the floor itself.                                     *)
RECURSIVE SearchFloors(_, _)
SearchFloors(floors, expressId) ==
    IF floors = <<>> THEN Null
    ELSE IF expressId \in ZoneIds(Head(floors))
    THEN Some(Entity("zone", expressId))
    ELSE IF Head(floors).id = expressId
    THEN Some(Entity("floor", Head(floors).id))
    ELSE SearchFloors(Tail(floors), expressId)

(* getEntityForExpressId (expressId). *)
getEntityForExpressId(structure, expressId) ==
    IF structure = Null THEN Null
    ELSE IF Val(structure).id = expressId
    THEN Some(Entity("building", Val(structure).id))
    ELSE SearchFloors(FloorsOf(Val(structure)), expressId)

(* The structures explored, each with its ids as numbers and again with    *)
(* its ids as strings: a building with one floor and one zone; floors      *)
(* whose zone list is missing or empty; no floor list; a zone with the     *)
(* building's id; two floors each holding a zone with the other floor's    *)
(* id; two floors with the same id.  The ids asked about run from 1 to     *)
(* MaxId, as numbers and as strings.                                       *)
MaxId == 3
IdTypes == {"number", "string"}
Zone(t, n) == [id |-> <<t, n>>]
Floor(t, n, zones) == [id |-> <<t, n>>, zones |-> zones]
Building(t, n, floors) == [id |-> <<t, n>>, floors |-> floors]
Plain(t) == Building(t, 1, Some(<<Floor(t, 2, Some(<<Zone(t, 3)>>))>>))
BareFloors(t) ==
    Building(t, 1, Some(<<Floor(t, 2, Null), Floor(t, 3, Some(<<>>))>>))
NoFloors(t) == Building(t, 1, Null)
ZoneIsBuilding(t) ==
    Building(t, 1, Some(<<Floor(t, 2, Some(<<Zone(t, 1)>>))>>))
ZonesAreFloors(t) ==
    Building(t, 1, Some(<<Floor(t, 2, Some(<<Zone(t, 3)>>)),
                          Floor(t, 3, Some(<<Zone(t, 2)>>))>>))
SameFloorTwice(t) ==
    Building(t, 1, Some(<<Floor(t, 2, Some(<<Zone(t, 3)>>)),
                          Floor(t, 2, Some(<<Zone(t, 1)>>))>>))
Structures ==
    UNION {{Plain(t), BareFloors(t), NoFloors(t), ZoneIsBuilding(t),
            ZonesAreFloors(t), SameFloorTwice(t)} : t \in IdTypes}
IdsOf(type) == {<<type, n>> : n \in 1..MaxId}
EntityTypes == {"building", "floor", "zone"}
ExpressIds == UNION {IdsOf(type) : type \in IdTypes}
Entities == {Entity(t, i) : t \in EntityTypes, i \in ExpressIds}

(* What none of these operations touches: the section box and its host. *)
bvars == <<impl, ivars, hvars, lvars, clipBeforeEnable, nCalls>>
pvars == <<treeItems, entityItemMap, selectedItem, callbacks>>

setBuildingStructureData(structure) ==
    /\ buildingStructure' = Some(structure)
    /\ last' = Ran("setBuildingStructureData", structure, "void")
    /\ UNCHANGED <<bvars, pvars>>

clearBuildingStructureData ==
    /\ buildingStructure' = Null
    /\ last' = Ran("clearBuildingStructureData", Null, "void")
    /\ UNCHANGED <<bvars, pvars>>

getExpressIdsForEntityCall(entity) ==
    /\ last' = Ran("getExpressIdsForEntity", entity,
                   getExpressIdsForEntity(buildingStructure, entity))
    /\ UNCHANGED <<bvars, svars>>

getEntityForExpressIdCall(expressId) ==
    /\ last' = Ran("getEntityForExpressId", expressId,
                   getEntityForExpressId(buildingStructure, expressId))
    /\ UNCHANGED <<bvars, svars>>

(* The section box plays no part here: one host is enough. *)
InitStructure ==
    /\ Init
    /\ impl = "interactive"
    /\ rendererClip = ClipHost(<<>>)
    /\ autoClear

NextStructure ==
    \/ \E s \in Structures : setBuildingStructureData(s)
    \/ clearBuildingStructureData
    \/ \E e \in {Null} \cup {Some(e) : e \in Entities} :
           getExpressIdsForEntityCall(e)
    \/ \E i \in ExpressIds : getEntityForExpressIdCall(i)

SpecStructure == InitStructure /\ [][NextStructure]_vars

---------------------------------------------------------------------------
(* NavigatorStructurePanel (src/unnamed/part_000).  A tree item is known   *)
(* by its place in treeItems, the order Fill creates the items in; each    *)
(* item carries the entity its click handler reports, its parent item (0   *)
(* for the root), whether it is marked selected (SetSelected (true) or the *)
(* 'selected' class) and whether its children are shown.                   *)

NewItem(kind, entityData, parent) ==
    [kind |-> kind, entityData |-> entityData, parent |-> parent,
     selected |-> FALSE, expanded |-> FALSE]

(* Map.set: a later entry under the same key replaces the earlier one. *)
MapSet(map, key, value) ==
    [k \in DOMAIN map \cup {key} |-> IF k = key THEN value ELSE map[k]]

Entry(item, entityData, parentItem) ==
    [item |-> item, entityData |-> entityData, parentItem |-> parentItem]

(* The loops of Fill, carrying the items and the map built so far. *)
RECURSIVE FillZones(_, _, _)
FillZones(tree, zones, floorItem) ==
    IF zones = <<>> THEN tree
    ELSE LET zoneEntityData == Entity("zone", Head(zones).id)
             zoneItem == Len(tree.items) + 1
         IN  FillZones(
                 [items |-> Append(tree.items,
                                   NewItem("single", zoneEntityData, floorItem)),
                  map |-> MapSet(tree.map, Head(zones).id,
                                 Entry(zoneItem, zoneEntityData, floorItem))],
                 Tail(zones), floorItem)

RECURSIVE FillFloors(_, _, _)
FillFloors(tree, floors, rootItem) ==
    IF floors = <<>> THEN tree
    ELSE LET floorEntityData == Entity("floor", Head(floors).id)
             floorItem == Len(tree.items) + 1
             withFloor ==
                 [items |-> Append(tree.items,
                                   NewItem("group", floorEntityData, rootItem)),
                  map |-> MapSet(tree.map, Head(floors).id,
                                 Entry(floorItem, floorEntityData, rootItem))]
         IN  FillFloors(FillZones(withFloor, ZonesOf(Head(floors)), floorItem),
                        Tail(floors), rootItem)

(* What Fill builds from a structure: the root item, shown with its        *)
(* children, then the floors and their zones.                              *)
FillTree(structure) ==
    LET buildingEntityData == Entity("building", structure.id)
        root == [NewItem("group", buildingEntityData, 0)
                     EXCEPT !.expanded = TRUE]
    IN  FillFloors([items |-> <<root>>,
                    map |-> MapSet(<<>>, structure.id,
                                   Entry(1, buildingEntityData, 0))],
                   FloorsOf(structure), 1)

(* A selection change that leaves the previously selected item marked. *)
DeselectedNever(items, selected) == items

(* selectedItem.SetSelected (false), or the 'selected' class removed. *)
Deselected(items, selected) ==
    IF selected = Null THEN items
    ELSE [items EXCEPT ![Val(selected)].selected = FALSE]

(* A silent selection that reports to the callbacks all the same. *)
FiredAlways(fireCallback, cbs, entityData) ==
    IF cbs # Null /\ "onEntitySelected" \in Val(cbs)
    THEN <<entityData>> ELSE <<>>

(* The calls of callbacks.onEntitySelected a selection makes: one from     *)
(* SetSelection when the callback is there, none from SetSelectionVisual.  *)
Fired(fireCallback, cbs, entityData) ==
    IF fireCallback /\ cbs # Null /\ "onEntitySelected" \in Val(cbs)
    THEN <<entityData>> ELSE <<>>

(* SetSelectionVisual (item), and SetSelection (item, entityData) up to    *)
(* its callback: the previous item unmarked, the new one marked.           *)
SetSelectionVisual(items, item) ==
    /\ treeItems' = [Deselected(items, selectedItem)
                         EXCEPT ![item].selected = TRUE]
    /\ selectedItem' = Some(item)

(* ExpandParents (entry): each ancestor's children are shown; the next     *)
(* ancestor is the parentItem of the map entry that holds this one.        *)
RECURSIVE ExpandParents(_, _, _)
ExpandParents(items, map, parent) ==
    IF parent = 0 THEN items
    ELSE LET holders == {k \in DOMAIN map : map[k].item = parent}
         IN  ExpandParents([items EXCEPT ![parent].expanded = TRUE], map,
                           IF holders = {} THEN 0
                           ELSE map[CHOOSE k \in holders : TRUE].parentItem)

(* NavigatorPanel.Init (callbacks) stores the callbacks the panel reports  *)
(* to; the object may lack onEntitySelected.                               *)
PanelInit(cbs) ==
    /\ callbacks' = Some(cbs)
    /\ last' = Ran("Init", cbs, <<>>)
    /\ UNCHANGED <<bvars, buildingStructure, treeItems, entityItemMap,
                   selectedItem>>

(* Clear: super.Clear () empties the tree view. *)
Clear ==
    /\ treeItems' = <<>>
    /\ entityItemMap' = <<>>
    /\ selectedItem' = Null
    /\ last' = Ran("Clear", Null, <<>>)
    /\ UNCHANGED <<bvars, buildingStructure, callbacks>>

Fill ==
    /\ treeItems' = IF buildingStructure = Null THEN <<>>
                    ELSE FillTree(Val(buildingStructure)).items
    /\ entityItemMap' = IF buildingStructure = Null THEN <<>>
                        ELSE FillTree(Val(buildingStructure)).map
    /\ selectedItem' = Null
    /\ last' = Ran("Fill", Null, <<>>)
    /\ UNCHANGED <<bvars, buildingStructure, callbacks>>

(* A click on a tree item runs the handler Fill gave it:                   *)
(* SetSelection (item, entityData).                                        *)
SetSelection(item) ==
    /\ item \in 1..Len(treeItems)
    /\ SetSelectionVisual(treeItems, item)
    /\ last' = Ran("SetSelection", item,
                   Fired(TRUE, callbacks, treeItems[item].entityData))
    /\ UNCHANGED <<bvars, buildingStructure, entityItemMap, callbacks>>

SelectEntityById(entity, fireCallback) ==
    /\ IF entity = Null
       THEN /\ treeItems' = Deselected(treeItems, selectedItem)
            /\ selectedItem' = Null
            /\ last' = Ran("SelectEntityById", <<entity, fireCallback>>, <<>>)
       ELSE IF EntityIdOf(Val(entity)) \notin DOMAIN entityItemMap
       THEN /\ UNCHANGED <<treeItems, selectedItem>>
            /\ last' = Ran("SelectEntityById", <<entity, fireCallback>>, <<>>)
       ELSE LET entry == entityItemMap[EntityIdOf(Val(entity))]
            IN  /\ SetSelectionVisual(
                       ExpandParents(treeItems, entityItemMap,
                                     entry.parentItem),
                       entry.item)
                /\ last' = Ran("SelectEntityById", <<entity, fireCallback>>,
                               Fired(fireCallback, callbacks,
                                     entry.entityData))
    /\ UNCHANGED <<bvars, buildingStructure, entityItemMap, callbacks>>

CallbackObjects == {{}, {"onEntitySelected"}}

NextNavigator ==
    \/ \E s \in Structures : setBuildingStructureData(s)
    \/ \E cbs \in CallbackObjects : PanelInit(cbs)
    \/ Fill
    \/ Clear
    \/ \E item \in 1..Len(treeItems) : SetSelection(item)
    \/ \E e \in {Null} \cup {Some(e) : e \in Entities},
          fireCallback \in BOOLEAN : SelectEntityById(e, fireCallback)

SpecNavigator == InitStructure /\ [][NextNavigator]_vars



---------------------------------------------------------------------------
(* Properties.  The faces, as the properties speak of them.                *)

FaceAxis == [minX |-> "x", maxX |-> "x", minY |-> "y", maxY |-> "y",
             minZ |-> "z", maxZ |-> "z"]
MinFace == [x |-> "minX", y |-> "minY", z |-> "minZ"]
MaxFace == [x |-> "maxX", y |-> "maxY", z |-> "maxZ"]
OppositeFace == [minX |-> "maxX", maxX |-> "minX", minY |-> "maxY",
                 maxY |-> "minY", minZ |-> "maxZ", maxZ |-> "minZ"]
IsMinFace(f) == f \in {"minX", "minY", "minZ"}

(* min + 0.01 <= max on one axis. *)
AxisWellFormed(bnd, axis) == bnd[MinFace[axis]] + DragMargin <= bnd[MaxFace[axis]]

(* OnMouseMove has just run UpdateDrag, which returned with the drag still *)
(* active; it wrote the bound when the ray met the drag plane.             *)
UpdateDragReturned ==
    /\ last.op = "OnMouseMove"
    /\ last.arg[1] = "drag"
    /\ isDragging /\ activeFace # Null
UpdateDragWrote == UpdateDragReturned /\ last.arg[3] = "written"

(* C1, as claimed: whenever UpdateDrag returns during an active drag, the  *)
(* dragged face's axis satisfies min + 0.01 <= max, whatever bulk sets     *)
(* came before or during the drag.                                         *)
C1_AfterEveryUpdateDrag ==
    UpdateDragReturned => AxisWellFormed(bounds, FaceAxis[Val(activeFace)])

(* C1, amended: whenever an UpdateDrag that found a drag-plane             *)
(* intersection (and so wrote the bound) returns during an active drag,    *)
(* the dragged face's axis satisfies min + 0.01 <= max, whatever bulk sets *)
(* came before or during the drag.                                         *)
C1_AfterWritingUpdateDrag ==
    UpdateDragWrote => AxisWellFormed(bounds, FaceAxis[Val(activeFace)])

(* A drag on X wrote its bound after SetSectionBox had put in bounds that  *)
(* are inverted on X and flat on Y: X is repaired, Y is still flat.        *)
C1_Witness ==
    /\ UpdateDragWrote
    /\ FaceAxis[Val(activeFace)] = "x"
    /\ bounds.minY = BadBounds.minY /\ bounds.maxY = BadBounds.maxY
    /\ (bounds.minX = BadBounds.minX \/ bounds.maxX = BadBounds.maxX)
    /\ AxisWellFormed(bounds, "x")

(* C2: a drag update that meets the drag plane writes                      *)
(* startBoundValue + (intersection[axis] - startPoint[axis]) when that     *)
(* keeps the 0.01 margin to the opposite bound, and otherwise              *)
(* oppositeMax - 0.01 (min face) or oppositeMin + 0.01 (max face); the     *)
(* dragged bound never crosses the opposite bound.                         *)
C2_Unclamped ==
    Val(dragStartBound) + (Val(last.arg[2]) - Val(dragStartPoint))
C2_DragWritesClampedValue ==
    UpdateDragWrote =>
        LET face == Val(activeFace)
            opposite == bounds[OppositeFace[face]]
        IN  IF IsMinFace(face)
            THEN /\ bounds[face] = (IF C2_Unclamped <= opposite - DragMargin
                                    THEN C2_Unclamped
                                    ELSE opposite - DragMargin)
                 /\ bounds[face] < opposite
            ELSE /\ bounds[face] = (IF C2_Unclamped >= opposite + DragMargin
                                    THEN C2_Unclamped
                                    ELSE opposite + DragMargin)
                 /\ bounds[face] > opposite

(* A min face dragged far past the opposite bound stopped 0.01 short of it. *)
C2_Witness ==
    /\ UpdateDragWrote
    /\ IsMinFace(Val(activeFace))
    /\ C2_Unclamped > bounds[OppositeFace[Val(activeFace)]] + One
    /\ bounds[Val(activeFace)] = bounds[OppositeFace[Val(activeFace)]] - DragMargin

(* The objects of the overlay graph: the overlay scene's children. *)
OverlayObjects ==
    {o \in (IF edgesHelper = Null THEN {} ELSE {[name |-> Val(edgesHelper).name,
                                                  visible |-> Val(edgesHelper).visible]})
           \cup {[name |-> faceHandles[i].name, visible |-> faceHandles[i].visible] :
                    i \in 1..Len(faceHandles)} :
        \E j \in 1..Len(overlayChildren) : overlayChildren[j] = o.name}

(* C3: after EnableSectionBox (false) or Enable (false) the renderer's     *)
(* clip-plane list is empty and every object of the overlay graph (the box *)
(* helper of the legacy class) is invisible.                               *)
C3_DisableClearsPlanesAndHidesOverlay ==
    /\ (last.op \in {"EnableSectionBox", "Enable"} /\ last.arg = FALSE) =>
           /\ ClippingPlanes = <<>>
           /\ ~sceneVisible
           /\ \A o \in OverlayObjects : ~o.visible
    /\ (last.op = "Legacy.Enable" /\ last.arg = FALSE) =>
           /\ ClippingPlanes = <<>>
           /\ lgBoxHelper # Null => ~Val(lgBoxHelper).visible

(* The section box was disabled with its wireframe and six handles in the  *)
(* overlay graph.                                                          *)
C3_Witness ==
    /\ last.op = "EnableSectionBox" /\ last.arg = FALSE
    /\ Cardinality(OverlayObjects) = 7
    /\ ClippingPlanes = <<>>


(* C4: when the section box is disabled during a drag, the drag is over:   *)
(* the OnMouseUp that follows returns false, and the OnMouseMove that      *)
(* follows changes no bound.                                               *)
DisabledDuringDrag ==
    /\ last.op \in {"EnableSectionBox", "Enable"}
    /\ last.arg = FALSE
    /\ last.wasDragging
C4_DisableEndsDrag ==
    [][DisabledDuringDrag =>
          /\ last'.op = "OnMouseUp" => last'.ret = FALSE
          /\ last'.op = "OnMouseMove" => bounds' = bounds]_vars

(* OnMouseUp reported "not handled" on a disabled section box that still   *)
(* holds the start point of the drag the disable cut short.                *)
C4_Witness ==
    /\ last.op = "OnMouseUp" /\ last.ret = FALSE
    /\ ~enabled /\ ~isDragging
    /\ dragStartPoint # Null

Scalars(r) == <<r.minX, r.maxX, r.minY, r.maxY, r.minZ, r.maxZ>>

(* C5: GetSectionBox right after SetSectionBox (b) returns b's six         *)
(* scalars, and GetSectionBox changes no state.                            *)
C5_SetThenGet ==
    [][/\ (last.op = "SetSectionBox" /\ last'.op = "GetSectionBox") =>
              Scalars(last'.ret) = Scalars(last.arg)
       /\ last'.op = "GetSectionBox" => UNCHANGED <<ivars, hvars, lvars>>]_vars

(* GetSectionBox returned bounds that are inverted on X and flat on Y. *)
C5_Witness ==
    /\ last.op = "GetSectionBox"
    /\ Scalars(last.ret) = Scalars(BadBounds)
    /\ last.ret.enabled

(* C6, as claimed: the enabled flag reported by GetSectionBox changes only *)
(* via EnableSectionBox.                                                   *)
C6_OnlyEnableSectionBox ==
    [][SectionBoxOf(enabled', bounds').enabled # SectionBoxOf(enabled, bounds).enabled
          => last'.op = "EnableSectionBox"]_vars

(* C6, amended: the enabled flag reported by GetSectionBox changes only    *)
(* via EnableSectionBox or the legacy-API Enable; SetSectionBox, FitToBox, *)
(* SetBox, the mouse handlers and Dispose never change it.                 *)
C6_OnlyEnableCalls ==
    [][SectionBoxOf(enabled', bounds').enabled # SectionBoxOf(enabled, bounds).enabled
          => last'.op \in {"EnableSectionBox", "Enable"}]_vars

(* Dispose ran on an enabled section box and left it enabled. *)
C6_Witness == last.op = "Dispose" /\ enabled

(* C7: while enabled the six planes are normal (+1,0,0) constant -min.x,   *)
(* normal (-1,0,0) constant +max.x and likewise for Y and Z; each is 0 on  *)
(* its face and > 0 strictly inside the box, and a point satisfies all six *)
(* half-spaces iff it lies between min and max on every axis.              *)
PointCoords == {-2 * One, 0, One \div 2, 3 * One}
Points == {Vec3(a, b, c) : a \in PointCoords, b \in PointCoords, c \in PointCoords}
PlaneValue(pl, p) ==
    pl.normal[1] * p.x + pl.normal[2] * p.y + pl.normal[3] * p.z + pl.constant
PlanesEncodeBox(pl, bx) ==
    /\ Len(pl) = 6
    /\ pl[1] = [normal |-> << 1, 0, 0>>, constant |-> -bx.min.x]
    /\ pl[2] = [normal |-> <<-1, 0, 0>>, constant |-> bx.max.x]
    /\ pl[3] = [normal |-> <<0,  1, 0>>, constant |-> -bx.min.y]
    /\ pl[4] = [normal |-> <<0, -1, 0>>, constant |-> bx.max.y]
    /\ pl[5] = [normal |-> <<0, 0,  1>>, constant |-> -bx.min.z]
    /\ pl[6] = [normal |-> <<0, 0, -1>>, constant |-> bx.max.z]
    /\ \A p \in Points :
          /\ \A k \in 1..3 :
                /\ p[Axes[k]] = bx.min[Axes[k]] => PlaneValue(pl[2 * k - 1], p) = 0
                /\ p[Axes[k]] = bx.max[Axes[k]] => PlaneValue(pl[2 * k], p) = 0
          /\ (\A a \in AxisSet : bx.min[a] < p[a] /\ p[a] < bx.max[a]) =>
                \A k \in 1..6 : PlaneValue(pl[k], p) > 0
          /\ (\A k \in 1..6 : PlaneValue(pl[k], p) >= 0) <=>
                (\A a \in AxisSet : bx.min[a] <= p[a] /\ p[a] <= bx.max[a])
C7_PlanesEncodeBox ==
    /\ (impl = "interactive" /\ enabled) => PlanesEncodeBox(planes, box)
    /\ (impl = "legacy" /\ lgIsEnabled) => PlanesEncodeBox(lgPlanes, lgBox)

(* Enabled on the cube (-2..2)^3: the origin is 2 inside the maxX plane. *)
C7_Witness ==
    /\ impl = "interactive" /\ enabled
    /\ box = CubeBox
    /\ PlaneValue(planes[2], Vec3(0, 0, 0)) = 2 * One

(* C8: for a non-empty box and margin factor m, FitToBox sets              *)
(* min = box.min - size * m and max = box.max + size * m on every axis; so *)
(* m = 0 gives the box itself, and (-2..2)^3 with m = 0.1 gives -2.4..2.4. *)
NonEmptyBox(b) == b # Null /\ \A a \in AxisSet : Val(b).min[a] <= Val(b).max[a]
C8_FitToBoxBounds ==
    (last.op = "FitToBox" /\ NonEmptyBox(last.arg[1])) =>
        LET bb == Val(last.arg[1])
            pct == last.arg[2]
        IN  /\ \A a \in AxisSet :
                  /\ 100 * bounds[MinFace[a]] =
                         100 * bb.min[a] - (bb.max[a] - bb.min[a]) * pct
                  /\ 100 * bounds[MaxFace[a]] =
                         100 * bb.max[a] + (bb.max[a] - bb.min[a]) * pct
            /\ pct = 0 => \A a \in AxisSet : /\ bounds[MinFace[a]] = bb.min[a]
                                             /\ bounds[MaxFace[a]] = bb.max[a]
            /\ (bb = CubeBox /\ pct = 10) =>
                   \A a \in AxisSet : /\ 10 * bounds[MinFace[a]] = -24 * One
                                      /\ 10 * bounds[MaxFace[a]] = 24 * One

(* FitToBox ran on (-2..2)^3 with margin 0.1 and X is now -2.4..2.4. *)
C8_Witness ==
    /\ last.op = "FitToBox"
    /\ last.arg = <<Some(CubeBox), 10>>
    /\ 10 * bounds.minX = -24 * One /\ 10 * bounds.maxX = 24 * One

(* C9, as claimed: every FitToBox and SetBox, the legacy SetBox included,  *)
(* called with a null or an empty box raises no error and changes nothing. *)
NullOrEmptyBox(b) == b = Null \/ \E a \in AxisSet : Val(b).max[a] < Val(b).min[a]
C9_NullOrEmptyBoxIsNoOp ==
    [][(\/ last'.op = "FitToBox" /\ NullOrEmptyBox(last'.arg[1])
        \/ last'.op \in {"SetBox", "Legacy.SetBox"} /\ NullOrEmptyBox(last'.arg))
          => /\ last'.ret = "void"
             /\ UNCHANGED <<ivars, hvars, lvars>>]_vars

(* C10, as claimed: FitToBox with a box of zero volume (min = max on some  *)
(* axis) leaves the six bounds unchanged.                                  *)
ZeroVolumeBox(b) == b # Null /\ \E a \in AxisSet : Val(b).min[a] = Val(b).max[a]
C10_ZeroVolumeBoxIsNoOp ==
    [][(last'.op = "FitToBox" /\ ZeroVolumeBox(last'.arg[1]))
          => bounds' = bounds]_vars

(* C10, amended: FitToBox with a box of zero volume that is not empty      *)
(* (min = max on some axis, max >= min on all) is not ignored: the bounds  *)
(* are set from it, min = max = the box's coordinate on each axis of zero  *)
(* thickness; only a null or empty box leaves the bounds unchanged.        *)
C10_ZeroVolumeBoxIsFitted ==
    [][last'.op = "FitToBox" =>
          IF NullOrEmptyBox(last'.arg[1])
          THEN bounds' = bounds
          ELSE ZeroVolumeBox(last'.arg[1]) =>
                  \A a \in AxisSet :
                      Val(last'.arg[1]).min[a] = Val(last'.arg[1]).max[a] =>
                          /\ bounds'[MinFace[a]] = Val(last'.arg[1]).min[a]
                          /\ bounds'[MaxFace[a]] = Val(last'.arg[1]).min[a]]_vars

(* FitToBox ran on a single point and the box is now that point. *)
C10_Witness ==
    /\ last.op = "FitToBox"
    /\ last.arg[1] = Some(PointBox)
    /\ \A a \in AxisSet : /\ bounds[MinFace[a]] = PointBox.min[a]
                          /\ bounds[MaxFace[a]] = PointBox.min[a]

(* C11: OnMouseDown returns true exactly when the box is enabled, the      *)
(* button is the primary one and the ray hits a handle, and it has then    *)
(* started a drag on the nearest hit handle; OnMouseMove and OnMouseUp     *)
(* return true only when a drag was active when they were called; on a     *)
(* disabled box, a non-primary button, a ray miss or a hover highlight the *)
(* handler returns false.                                                  *)
C11_HandlersReportConsumption ==
    /\ last.op = "OnMouseDown" =>
           /\ last.ret = (enabled /\ last.arg[2] = 1 /\ Len(last.arg[1]) > 0)
           /\ last.ret =>
                  /\ isDragging
                  /\ activeFace = Some(faceHandles[last.arg[1][1]].faceName)
    /\ last.op = "OnMouseMove" =>
           /\ last.ret => last.wasDragging
           /\ last.arg[1] = "hover" => ~last.ret
           /\ ~enabled => ~last.ret
    /\ last.op = "OnMouseUp" =>
           /\ last.ret = last.wasDragging
           /\ ~enabled => ~last.ret

(* A hover move highlighted a handle and reported the event as not         *)
(* consumed.                                                               *)
C11_Witness ==
    /\ last.op = "OnMouseMove" /\ last.arg[1] = "hover"
    /\ Len(last.arg[2]) > 0
    /\ faceHandles[last.arg[2][1]].color = handleHoverColor
    /\ last.ret = FALSE

(* What one call of viewer.Render () does in the current state. *)
RenderNow ==
    CallRender(viewerRender, originalRender, impl = "interactive" /\ enabled,
               overlayChildren, FALSE)

(* C12: in every state, after any sequence of enables and disables, one    *)
(* call of viewer.Render runs the host's original draw exactly once, draws *)
(* the overlay once if the section box is enabled and the overlay is not   *)
(* empty and otherwise not at all, and never enters the wrapper while the  *)
(* wrapper is running.                                                     *)
C12_RenderDrawsOnce ==
    /\ RenderNow.host = 1
    /\ RenderNow.overlay =
           (IF impl = "interactive" /\ enabled /\ Len(overlayChildren) > 0
            THEN 1 ELSE 0)
    /\ ~RenderNow.reentered
    /\ ~RenderNow.threw
    /\ last.op = "viewer.Render" => last.ret = RenderNow

(* The host rendered through the wrapper after the section box had been    *)
(* enabled, disabled and enabled again: the original draw is now a bind of *)
(* a bind of the host's.                                                   *)
C12_Witness ==
    /\ last.op = "viewer.Render"
    /\ viewerRender = Wrapper
    /\ originalRender = Some(Bind(Bind(HostDraw)))
    /\ last.ret.host = 1 /\ last.ret.overlay = 1

(* C13, as claimed: after EnableSectionBox (false), whatever enables came  *)
(* before, viewer.Render is the very function that was installed before    *)
(* the first enable, not a wrapper or a derived copy of it.                *)
C13_OriginalRenderRestored ==
    (last.op = "EnableSectionBox" /\ last.arg = FALSE) =>
        viewerRender = HostDraw

(* C14, as claimed: after EnableSectionBox (false) or Enable (false), and  *)
(* after Dispose (also when called on an enabled box), the renderer's      *)
(* clip-plane list is the list it held just before the section box was     *)
(* enabled, and no section-box plane is installed.                         *)
AfterDisableOrDispose ==
    \/ last.op \in {"EnableSectionBox", "Enable", "Legacy.Enable"} /\ last.arg = FALSE
    \/ last.op = "Dispose"
C14_ClipPlanesRestored ==
    (AfterDisableOrDispose /\ clipBeforeEnable # Null) =>
        /\ ClippingPlanes = Val(clipBeforeEnable)
        /\ rendererClip.ref # "planes"

(* C15, as claimed: when a drag ends, by OnMouseUp or by disabling the     *)
(* section box during the drag, no handle shows the active colour.         *)
DragJustEnded ==
    \/ last.op = "OnMouseUp" /\ last.ret = TRUE
    \/ DisabledDuringDrag
C15_NoActiveColourAfterDrag ==
    DragJustEnded =>
        \A i \in 1..Len(faceHandles) : faceHandles[i].color # handleActiveColor

(* C16, as claimed: activeFace, dragStartPoint, dragPlane and              *)
(* dragStartBound are all non-null while isDragging and all null while     *)
(* not, also after a release and after a disable during a drag.            *)
C16_DragSessionOnlyWhileDragging ==
    IF isDragging
    THEN /\ activeFace # Null /\ dragStartPoint # Null
         /\ dragPlane # Null /\ dragStartBound # Null
    ELSE /\ activeFace = Null /\ dragStartPoint = Null
         /\ dragPlane = Null /\ dragStartBound = Null

(* C17: Dispose removes the render hook before it releases any overlay     *)
(* object, and afterwards viewer.Render is not the wrapper, originalRender *)
(* is null, the wireframe reference is null, the handle list is empty and  *)
(* the overlay graph has no objects; from any state, also enabled and      *)
(* during a drag.                                                          *)
C17_DisposeUnhooksThenReleases ==
    last.op = "Dispose" =>
        /\ last.ret[1] = "UnhookRender"
        /\ \A i \in 2..Len(last.ret) : last.ret[i] # "UnhookRender"
        /\ viewerRender # Wrapper
        /\ originalRender = Null
        /\ edgesHelper = Null
        /\ faceHandles = <<>>
        /\ overlayChildren = <<>>
        /\ OverlayObjects = {}

(* Dispose ran during a drag on an enabled section box and released the    *)
(* wireframe and the six handles after unhooking.                          *)
C17_Witness ==
    /\ last.op = "Dispose"
    /\ last.wasDragging /\ enabled
    /\ Len(last.ret) = 8
    /\ viewerRender = Bind(HostDraw)

(* C18, as claimed: in every state, starting at construction, the Box is   *)
(* the bounds (Box.min = (minX, minY, minZ), Box.max = (maxX, maxY,        *)
(* maxZ)); so after EnableSectionBox (true) with no set before it the clip *)
(* planes are those of the unit box.                                       *)
C18_BoxEqualsBounds ==
    impl = "interactive" =>
        /\ box = SyncBoxFromBounds(bounds)
        /\ (enabled /\ bounds = InitBounds) =>
               planes = PlanesFromBox(SyncBoxFromBounds(InitBounds))

(* The enabled flag and the Box of whichever class the viewer uses. *)
IsEnabled == IF impl = "legacy" THEN lgIsEnabled ELSE enabled
CurrentBox == IF impl = "legacy" THEN lgBox ELSE box

EnabledClipsToBox ==
    IsEnabled =>
        /\ rendererClip.ref = "planes"
        /\ Len(ClippingPlanes) = 6
        /\ ClippingPlanes = PlanesFromBox(CurrentBox)

(* C19, as claimed: between operations, while enabled the renderer's       *)
(* clip-plane list is the section box's six planes and they encode the     *)
(* current Box; while disabled the renderer's clip-plane list is empty.    *)
C19_ClipListFollowsEnabled ==
    /\ EnabledClipsToBox
    /\ ~IsEnabled => ClippingPlanes = <<>>

(* C19, amended: between operations, while enabled the renderer's          *)
(* clip-plane list is the section box's six planes and they encode the     *)
(* current Box; while disabled it is empty once Enable or EnableSectionBox *)
(* has been called, and before the first such call it is still the list    *)
(* the host's renderer held at construction.                               *)
C19_ClipListFollowsEnableCalls ==
    /\ EnabledClipsToBox
    /\ ~IsEnabled => (ClippingPlanes = <<>> \/ rendererClip.ref = "host")
    /\ (~IsEnabled /\ last.op \in {"EnableSectionBox", "Enable", "Legacy.Enable"})
           => ClippingPlanes = <<>>

(* The section box was enabled after SetSectionBox had changed the bounds  *)
(* while it was disabled: the renderer holds the planes of those bounds.   *)
C19_Witness ==
    /\ last.op = "EnableSectionBox" /\ last.arg = TRUE
    /\ bounds = WideBounds
    /\ ClippingPlanes = PlanesFromBox(SyncBoxFromBounds(WideBounds))

(* C20: construction leaves every axis with min + 0.01 <= max, and         *)
(* EnableSectionBox and the mouse handlers, run in any state where every   *)
(* axis has it, leave every axis with it; so every state reached from      *)
(* construction using only them has min + 0.01 <= max on every axis, not   *)
(* only on the dragged one.                                                *)
AllAxesWellFormed(bnd) == \A a \in AxisSet : AxisWellFormed(bnd, a)
MouseOrEnableOps == {"EnableSectionBox", "OnMouseDown", "OnMouseMove", "OnMouseUp"}
C20_MouseKeepsAllAxesWellFormed ==
    /\ AllAxesWellFormed(bounds)
    /\ [][(last'.op \in MouseOrEnableOps /\ AllAxesWellFormed(bounds))
             => AllAxesWellFormed(bounds')]_vars

(* A press with the primary button on the enabled section box, with        *)
(* nothing but EnableSectionBox and mouse handlers called so far: the Box  *)
(* is still the constructor's, the bounds are the unit box.                *)
C20_Witness ==
    /\ last.op = "OnMouseDown" /\ last.arg[2] = 1
    /\ enabled /\ Len(faceHandles) = 6
    /\ box = NewBox3
    /\ bounds = InitBounds
    /\ AllAxesWellFormed(bounds)

(* C21: EnableSectionBox and Enable, with true or false, change none of    *)
(* the six bounds: GetSectionBox reports the same six scalars after the    *)
(* toggle as before it.                                                    *)
C21_ToggleKeepsBounds ==
    [][last'.op \in {"EnableSectionBox", "Enable"} =>
          /\ bounds' = bounds
          /\ Scalars(SectionBoxOf(enabled', bounds')) =
                 Scalars(SectionBoxOf(enabled, bounds))]_vars

(* The section box was enabled and disabled again over bounds that are     *)
(* inverted on X and flat on Y, and still has them.                        *)
C21_Witness ==
    /\ last.op = "EnableSectionBox" /\ last.arg = FALSE
    /\ clipBeforeEnable # Null
    /\ bounds = BadBounds

(* C22: ScreenToNDC maps pixel (x, y) on a canvas of size (w, h) to        *)
(* (2x/w - 1, 1 - 2y/h): (0, 0) goes to (-1, +1), (w, h) to (+1, -1),      *)
(* every pixel with 0 <= x <= w and 0 <= y <= h goes into [-1, 1] on both  *)
(* axes, and a pixel further down the screen gets a smaller y.             *)
InCanvas(sc, cs) ==
    /\ 0 <= sc.x /\ sc.x <= cs.width
    /\ 0 <= sc.y /\ sc.y <= cs.height
C22_ScreenToNDCMap ==
    last.op = "ScreenToNDC" =>
        LET sc == last.arg[1]
            cs == last.arg[2]
            ndc == last.ret
            below == ScreenToNDC([sc EXCEPT !.y = @ + 1], cs)
        IN  /\ ndc.x[2] > 0 /\ ndc.y[2] > 0
            /\ RatEq(ndc.x, <<2 * sc.x - cs.width, cs.width>>)
            /\ RatEq(ndc.y, <<cs.height - 2 * sc.y, cs.height>>)
            /\ (sc.x = 0 /\ sc.y = 0) =>
                   RatEq(ndc.x, RatOf(-1)) /\ RatEq(ndc.y, RatOf(1))
            /\ (sc.x = cs.width /\ sc.y = cs.height) =>
                   RatEq(ndc.x, RatOf(1)) /\ RatEq(ndc.y, RatOf(-1))
            /\ InCanvas(sc, cs) =>
                   /\ RatLeq(RatOf(-1), ndc.x) /\ RatLeq(ndc.x, RatOf(1))
                   /\ RatLeq(RatOf(-1), ndc.y) /\ RatLeq(ndc.y, RatOf(1))
            /\ ~RatLeq(ndc.y, below.y)

(* The bottom-right pixel of a 3 by 2 canvas went to (+1, -1). *)
C22_Witness ==
    /\ last.op = "ScreenToNDC"
    /\ last.arg = <<[x |-> 3, y |-> 2], [width |-> 3, height |-> 2]>>
    /\ RatEq(last.ret.x, RatOf(1)) /\ RatEq(last.ret.y, RatOf(-1))

(* C23: a drag starts only from OnMouseDown with the primary button while  *)
(* the box is enabled and the ray hits a handle; then the active face is   *)
(* the nearest hit handle's face, dragStartBound is the current bound of   *)
(* that face, dragStartPoint is the hit point and that handle shows the    *)
(* active colour.  A press that returns false (another button, a miss, a   *)
(* disabled box) changes no state.                                         *)
C23_DragStartsOnlyFromPress ==
    [][/\ (isDragging' /\ ~isDragging) =>
              /\ last'.op = "OnMouseDown"
              /\ last'.ret = TRUE
       /\ (last'.op = "OnMouseDown" /\ last'.ret = TRUE) =>
              LET h == last'.arg[1][1]
                  face == faceHandles[h].faceName
              IN  /\ enabled /\ last'.arg[2] = 1
                  /\ isDragging'
                  /\ activeFace' = Some(face)
                  /\ dragStartBound' = Some(bounds[face])
                  /\ bounds' = bounds
                  /\ dragStartPoint' =
                         Some((faceHandles[h].pos2[FaceAxis[face]] \div 2)
                                  + last'.arg[3])
                  /\ dragPlane' # Null
                  /\ faceHandles'[h].color = handleActiveColor
       /\ (last'.op = "OnMouseDown" /\ last'.ret = FALSE) =>
              UNCHANGED <<ivars, hvars, lvars>>]_vars

(* A press whose ray passes through the maxX handle and then the minX      *)
(* handle started a drag of maxX.                                          *)
C23_Witness ==
    /\ last.op = "OnMouseDown" /\ last.ret = TRUE
    /\ Len(last.arg[1]) = 2
    /\ activeFace = Some("maxX")
    /\ faceHandles[last.arg[1][1]].faceName = "maxX"
    /\ faceHandles[last.arg[1][1]].color = handleActiveColor
    /\ dragStartBound = Some(bounds.maxX)

(* C24: a pointer move on the enabled box while no drag is active leaves   *)
(* the nearest handle hit by the ray with the hover colour (no handle when *)
(* the ray hits none) and every other handle with the default colour, and  *)
(* changes none of the six bounds.                                         *)
C24_HoverHighlightsNearest ==
    [][(last'.op = "OnMouseMove" /\ last'.arg[1] = "hover") =>
          /\ bounds' = bounds /\ box' = box
          /\ enabled =>
                \A i \in 1..Len(faceHandles') :
                    faceHandles'[i].color =
                        IF last'.arg[2] # <<>> /\ last'.arg[2][1] = i
                        THEN handleHoverColor ELSE handleColor]_vars

(* The ray passed through two handles and exactly the nearer one has the   *)
(* hover colour.                                                           *)
C24_Witness ==
    /\ last.op = "OnMouseMove" /\ last.arg[1] = "hover"
    /\ Len(last.arg[2]) = 2
    /\ {i \in 1..Len(faceHandles) : faceHandles[i].color = handleHoverColor}
           = {last.arg[2][1]}
    /\ faceHandles[last.arg[2][2]].color = handleColor

(* C25: during a drag, a pointer move whose ray does not meet the drag     *)
(* plane changes nothing: bounds, Box, planes, the overlay objects, the    *)
(* DragSession and the renderer are as they were before the call.          *)
C25_NoIntersectionChangesNothing ==
    [][(last'.op = "OnMouseMove" /\ last'.arg[1] = "drag" /\ last'.arg[2] = Null)
          => UNCHANGED <<ivars, hvars, lvars>>]_vars

(* The ray missed the drag plane in the middle of a drag that had already  *)
(* moved its bound.                                                        *)
C25_Witness ==
    /\ last.op = "OnMouseMove" /\ last.arg[1] = "drag" /\ last.arg[2] = Null
    /\ isDragging /\ activeFace # Null
    /\ bounds[Val(activeFace)] # Val(dragStartBound)

(* What one call of viewer.Render () draws in the current state, and what  *)
(* it leaves in the renderer.                                              *)
RenderRun ==
    RunRender(viewerRender, originalRender, impl = "interactive" /\ enabled,
              overlayChildren,
              [clip |-> rendererClip, autoClear |-> autoClear, log |-> <<>>],
              FALSE)

(* C26: when the host calls the wrapped viewer.Render while enabled, the   *)
(* host's normal draw comes first, with the clip-plane list in force; the  *)
(* overlay is drawn after it, with an empty clip-plane list; and after the *)
(* call the renderer holds the same clip-plane list as before it.          *)
C26_OverlayAfterHostDrawUnclipped ==
    [][(last'.op = "viewer.Render" /\ viewerRender = Wrapper /\ enabled) =>
          /\ Len(RenderRun.log) >= 1
          /\ RenderRun.log[1].draw = "host"
          /\ RenderRun.log[1].clip = rendererClip
          /\ Len(overlayChildren) > 0 => Len(RenderRun.log) = 2
          /\ \A i \in 2..Len(RenderRun.log) :
                /\ RenderRun.log[i].draw = "overlay"
                /\ RenderRun.log[i].clip.ref # "planes"
                /\ RenderRun.log[i].clip.list = <<>>
          /\ rendererClip' = rendererClip]_vars

(* The host rendered the enabled section box over the cube (-2..2)^3: the  *)
(* overlay was drawn and the renderer still holds the six planes.          *)
C26_Witness ==
    /\ last.op = "viewer.Render"
    /\ viewerRender = Wrapper /\ enabled
    /\ last.ret.overlay = 1
    /\ box = CubeBox
    /\ rendererClip = ClipPlanes

(* C27, as claimed: a viewer.Render call that goes through the hook,       *)
(* whether the host makes it or the section box at the end of one of its   *)
(* operations, leaves every renderer setting the hook touches as it was    *)
(* before the call: renderer.autoClear, which nothing but the hook writes, *)
(* never changes, and a host call leaves the clip-plane list as it was.    *)
C27_HookKeepsRendererSettings ==
    [][/\ autoClear' = autoClear
       /\ last'.op = "viewer.Render" => rendererClip' = rendererClip]_vars

(* The operation that ran last changed the bounds: SetSectionBox, FitToBox *)
(* or SetBox with a box that is not ignored, or a drag update that wrote.  *)
BoundsJustMutated ==
    \/ last.op = "SetSectionBox"
    \/ last.op = "FitToBox" /\ ~NullOrEmptyBox(last.arg[1])
    \/ last.op = "SetBox" /\ ~NullOrEmptyBox(last.arg)
    \/ last.op = "OnMouseMove" /\ last.arg[1] = "drag" /\ last.arg[3] = "written"

(* The middle of the Box, doubled: min + max on every axis. *)
Midpoint2(bx) == [a \in AxisSet |-> bx.min[a] + bx.max[a]]
Origin == Vec3(0, 0, 0)

(* Every handle sits at the point c (doubled) with its own axis replaced   *)
(* by its bound, and the wireframe sits at c.                              *)
VisualsPlacedAround(c2) ==
    /\ Val(edgesHelper).pos2 = c2
    /\ \A i \in 1..Len(faceHandles) :
          LET h == faceHandles[i]
          IN  h.pos2 = [c2 EXCEPT ![h.axis] = 2 * bounds[h.faceName]]

(* C28, as claimed: once the visuals exist, after every bounds mutation    *)
(* each handle is at the middle of the Box with its own axis replaced by   *)
(* its min or max bound, the wireframe is at the middle of the Box, and    *)
(* the size floor has changed neither bounds nor Box.                      *)
C28_VisualsAtBoxCenter ==
    (edgesHelper # Null /\ BoundsJustMutated) =>
        /\ VisualsPlacedAround(Midpoint2(box))
        /\ box = SyncBoxFromBounds(bounds)

(* C28, amended: once the visuals exist, after every bounds mutation that  *)
(* leaves min <= max on every axis each handle is at the middle of the Box *)
(* with its own axis replaced by its min or max bound and the wireframe is *)
(* at the middle of the Box; after a mutation that leaves max < min on     *)
(* some axis the origin takes the place of the middle of the Box.  The     *)
(* size floor changes neither bounds nor Box: the wireframe's scale is the *)
(* floored size while Box and bounds keep the values that were set.        *)
C28_VisualsAtCenterOfNonEmptyBox ==
    (edgesHelper # Null /\ BoundsJustMutated) =>
        /\ IF \A a \in AxisSet : box.min[a] <= box.max[a]
           THEN VisualsPlacedAround(Midpoint2(box))
           ELSE VisualsPlacedAround(Origin)
        /\ box = SyncBoxFromBounds(bounds)
        /\ last.op = "SetSectionBox" => Scalars(bounds) = Scalars(last.arg)
        /\ \A a \in AxisSet :
              Val(edgesHelper).scale[a] =
                  IF \E b \in AxisSet : box.max[b] < box.min[b] THEN SizeFloor
                  ELSE Max2(box.max[a] - box.min[a], SizeFloor)

(* FitToBox put the existing visuals around a single point: the wireframe  *)
(* is drawn 0.001 wide while Box and bounds have no thickness.             *)
C28_Witness ==
    /\ edgesHelper # Null
    /\ last.op = "FitToBox" /\ last.arg[1] = Some(PointBox)
    /\ Val(edgesHelper).scale = Vec3(SizeFloor, SizeFloor, SizeFloor)
    /\ Val(edgesHelper).pos2 = Midpoint2(PointBox)
    /\ box = PointBox

(* The six face identities. *)
FaceIdentities == {"minX", "maxX", "minY", "maxY", "minZ", "maxZ"}

(* The overlay graph holds one wireframe and six handles, one per face. *)
OverlayComplete ==
    /\ edgesHelper # Null
    /\ Len(faceHandles) = 6
    /\ {faceHandles[i].faceName : i \in 1..6} = FaceIdentities
    /\ {<<faceHandles[i].axis, faceHandles[i].side>> : i \in 1..6}
           = AxisSet \X {"min", "max"}
    /\ Len(overlayChildren) = 7
    /\ {overlayChildren[j] : j \in 1..7}
           = {Val(edgesHelper).name} \cup {faceHandles[i].name : i \in 1..6}
    /\ Cardinality({overlayChildren[j] : j \in 1..7}) = 7

OverlayEmpty ==
    edgesHelper = Null /\ faceHandles = <<>> /\ overlayChildren = <<>>

(* C29: the overlay graph holds either nothing or exactly one wireframe    *)
(* and six handles with the six distinct identities, whatever enables,     *)
(* disables, Disposes and re-enables came before; and while enabled and    *)
(* not disposed of (the render hook is in place) all seven are there and   *)
(* visible.                                                                *)
C29_OverlayAllOrNothing ==
    /\ OverlayEmpty \/ OverlayComplete
    /\ (enabled /\ originalRender # Null) =>
           /\ OverlayComplete
           /\ sceneVisible
           /\ Cardinality(OverlayObjects) = 7
           /\ \A o \in OverlayObjects : o.visible
    /\ (last.op \in {"EnableSectionBox", "Enable"} /\ last.arg = TRUE) =>
           (enabled /\ originalRender # Null)

(* The section box was enabled, disposed of while enabled, and enabled     *)
(* again: the host's own clip plane was recorded at the first enable only, *)
(* the hook has been installed twice, and the overlay is complete.         *)
C29_Witness ==
    /\ last.op = "EnableSectionBox" /\ last.arg = TRUE
    /\ clipBeforeEnable = Some(<<HostPlane>>)
    /\ originalRender = Some(Bind(Bind(HostDraw)))
    /\ OverlayComplete

(* C30, as claimed: whenever UpdateDrag or EndDrag looks up the handle of  *)
(* the active face, the active face is one of the six identities and a     *)
(* handle with that identity exists.                                       *)
C30_ActiveFaceHandleExists ==
    [][/\ (last'.op = "OnMouseMove" /\ last'.arg[1] = "drag"
              /\ last'.arg[2] # Null) =>
              /\ Val(activeFace) \in FaceIdentities
              /\ FindHandle(faceHandles, Val(activeFace)) # 0
       /\ (last'.op = "OnMouseUp" /\ last'.ret = TRUE /\ activeFace # Null) =>
              /\ Val(activeFace) \in FaceIdentities
              /\ FindHandle(faceHandles, Val(activeFace)) # 0]_vars

---------------------------------------------------------------------------
(* C31: a drag is never in progress while the section box is disabled: in  *)
(* every reachable state isDragging implies enabled.                       *)
C31_DragOnlyWhileEnabled == isDragging => enabled

(* A disable has just cut a drag short: the section box is off and no drag *)
(* is left in progress.                                                    *)
C31_Witness ==
    /\ DisabledDuringDrag
    /\ ~enabled /\ ~isDragging
    /\ dragStartPoint # Null

---------------------------------------------------------------------------
(* C32: a drag update changes only the bound of the active face, the other *)
(* five bounds are as they were; OnMouseDown, OnMouseUp and a hover move   *)
(* change none of the six bounds.                                          *)
C32_DragWritesOnlyActiveBound ==
    [][/\ (last'.op = "OnMouseMove" /\ last'.arg[1] = "drag") =>
              \A f \in FaceIdentities :
                  (activeFace = Null \/ f # Val(activeFace)) =>
                      bounds'[f] = bounds[f]
       /\ (last'.op = "OnMouseMove" /\ last'.arg[1] = "hover") =>
              bounds' = bounds
       /\ last'.op \in {"OnMouseDown", "OnMouseUp"} => bounds' = bounds]_vars

(* A drag update has moved one face of the box that SetSectionBox gave and *)
(* the other five bounds are still those of that box.                      *)
C32_Witness ==
    /\ UpdateDragWrote
    /\ Cardinality({f \in FaceIdentities : bounds[f] # WideBounds[f]}) = 1
    /\ bounds[Val(activeFace)] # WideBounds[Val(activeFace)]

---------------------------------------------------------------------------
(* C33 as stated: within one drag session the bound a pointer move writes  *)
(* depends only on that move; the same move applied twice changes nothing  *)
(* the second time, and a move back to the press point puts the bound back *)
(* at the value it had at the press.                                       *)
DragMoveTo(isect) ==
    /\ last'.op = "OnMouseMove"
    /\ last'.arg = <<"drag", isect, "written">>
SameMoveBefore(isect) ==
    /\ last.op = "OnMouseMove"
    /\ last.arg = <<"drag", isect, "written">>
C33_PathIndependent ==
    [][\A isect \in IsectInputs(dragStartPoint) :
          DragMoveTo(isect) =>
              /\ SameMoveBefore(isect) => bounds' = bounds
              /\ isect = dragStartPoint =>
                     bounds'[Val(activeFace)] = Val(dragStartBound)]_vars

(* C33: within one drag session the bound a pointer move writes is the     *)
(* clamp of startBoundValue plus the move's travel from the press point,   *)
(* whatever the earlier moves were; the same move applied twice changes    *)
(* nothing the second time; a move back to the press point writes the      *)
(* clamp of startBoundValue, which is startBoundValue itself when it keeps *)
(* the margin from the opposite bound.                                     *)
KeepsMargin(face, value, bnd) ==
    IF IsMinFace(face) THEN value + DragMargin <= bnd[OppositeFace[face]]
                       ELSE value >= bnd[OppositeFace[face]] + DragMargin
C33_PathIndependentUpToClamp ==
    [][\A isect \in IsectInputs(dragStartPoint) :
          DragMoveTo(isect) =>
              LET face == Val(activeFace)
                  side == IF IsMinFace(face) THEN "min" ELSE "max"
              IN  /\ bounds'[face] =
                         ClampDrag(side,
                                   Val(dragStartBound)
                                       + (Val(isect) - Val(dragStartPoint)),
                                   bounds[OppositeFace[face]])
                  /\ SameMoveBefore(isect) => bounds' = bounds
                  /\ isect = dragStartPoint =>
                         bounds'[face] =
                             IF KeepsMargin(face, Val(dragStartBound), bounds)
                             THEN Val(dragStartBound)
                             ELSE ClampDrag(side, Val(dragStartBound),
                                            bounds[OppositeFace[face]])]_vars

(* The pointer went away and came back to the press point, and the bound   *)
(* is back at the value it had at the press.                               *)
C33_Witness ==
    /\ UpdateDragWrote
    /\ last.arg[2] = dragStartPoint
    /\ bounds[Val(activeFace)] = Val(dragStartBound)

---------------------------------------------------------------------------
(* C34: in every reachable state at most one handle has the active colour, *)
(* and a handle has it only while a drag is in progress on its face.       *)
ActiveHandles ==
    {i \in 1..Len(faceHandles) : faceHandles[i].color = handleActiveColor}
C34_AtMostOneActiveHandle ==
    /\ Cardinality(ActiveHandles) <= 1
    /\ \A i \in ActiveHandles :
           isDragging /\ activeFace = Some(faceHandles[i].faceName)

---------------------------------------------------------------------------
(* C35: after Dispose the section box is inert for input: the OnMouseDown, *)
(* OnMouseMove or OnMouseUp that follows returns false and changes no      *)
(* bound, also when Dispose was called during a drag.                      *)
C35_InertAfterDispose ==
    [][(last.op = "Dispose"
           /\ last'.op \in {"OnMouseDown", "OnMouseMove", "OnMouseUp"})
          => last'.ret = FALSE /\ bounds' = bounds]_vars

---------------------------------------------------------------------------
(* C36: the legacy SectionBox and the legacy API of the interactive        *)
(* SectionBox are equivalent on clipping.  Both start disabled, with an    *)
(* empty box and the host's clip list on the renderer, and in both every   *)
(* Enable (bool) and every SetBox (non-empty box) takes the same step on   *)
(* (enabled flag, box, renderer clip list): Enable (b) sets the flag,      *)
(* keeps the box and leaves the list empty when b is false and the six     *)
(* planes of the box when b is true; SetBox (box) keeps the flag, stores   *)
(* the box and leaves the six planes of the new box on the renderer when   *)
(* enabled and the list as it was when disabled.  The same sequence of     *)
(* calls therefore leaves the same clip list in both.                      *)
EnableOps == {"Enable", "Legacy.Enable"}
SetBoxOps == {"SetBox", "Legacy.SetBox"}
---------------------------------------------------------------------------
(* The ids of a structure's floors and zones, and whether an id names a    *)
(* node: the same digits, as a number or as a string.                      *)
FloorSet(structure) ==
    {FloorsOf(structure)[i] : i \in 1..Len(FloorsOf(structure))}
FloorIds(structure) == {f.id : f \in FloorSet(structure)}
AllZoneIds(structure) == UNION {ZoneIds(f) : f \in FloorSet(structure)}
SameId(a, b) == a[2] = b[2]

(* C37: getEntityForExpressId resolves an id to its most specific entity:  *)
(* the zone when the id is a zone's anywhere in the structure, otherwise   *)
(* the floor when it is a floor's, otherwise the building when it is the   *)
(* building's, and null when nothing matches or no structure is set.       *)
C37_MostSpecificEntity ==
    last.op = "getEntityForExpressId" =>
        last.ret =
            IF buildingStructure = Null THEN Null
            ELSE IF last.arg \in AllZoneIds(Val(buildingStructure))
            THEN Some(Entity("zone", last.arg))
            ELSE IF last.arg \in FloorIds(Val(buildingStructure))
            THEN Some(Entity("floor", last.arg))
            ELSE IF last.arg = Val(buildingStructure).id
            THEN Some(Entity("building", last.arg))
            ELSE Null

---------------------------------------------------------------------------
(* C38: getExpressIdsForEntity returns, for the building, the building id  *)
(* with every floor id and zone id; for a floor, that floor's id with      *)
(* exactly the zone ids of that floor; for a zone, only the zone's id; the *)
(* empty set when no structure is set or the entity is null.  So what a    *)
(* floor's zone gives is within what the floor gives, which is within what *)
(* the building gives.                                                     *)
C38_ExpressIdsOfEntity ==
    /\ last.op = "getExpressIdsForEntity" =>
          IF buildingStructure = Null \/ last.arg = Null THEN last.ret = {}
          ELSE LET s == Val(buildingStructure)
                   e == Val(last.arg)
               IN  /\ e.entityType = "building" =>
                          last.ret = {s.id} \cup FloorIds(s) \cup AllZoneIds(s)
                   /\ e.entityType = "floor" =>
                          \A f \in FloorSet(s) :
                              SameId(f.id, e.entityId) =>
                                  last.ret = {f.id} \cup ZoneIds(f)
                   /\ e.entityType = "zone" =>
                          \A z \in AllZoneIds(s) :
                              SameId(z, e.entityId) => last.ret = {z}
    /\ buildingStructure # Null =>
          \A f \in FloorSet(Val(buildingStructure)) :
              /\ \A z \in ZoneIds(f) :
                     getExpressIdsForEntity(buildingStructure,
                                            Some(Entity("zone", z)))
                       \subseteq
                     getExpressIdsForEntity(buildingStructure,
                                            Some(Entity("floor", f.id)))
              /\ getExpressIdsForEntity(buildingStructure,
                                        Some(Entity("floor", f.id)))
                    \subseteq
                  getExpressIdsForEntity(
                      buildingStructure,
                      Some(Entity("building", Val(buildingStructure).id)))

---------------------------------------------------------------------------
(* The tree items marked selected, and the ids the tree's items carry. *)
Marked == {i \in 1..Len(treeItems) : treeItems[i].selected}
TreeIds == {treeItems[i].entityData.entityId : i \in 1..Len(treeItems)}

(* C39: SelectEntityById with fireCallback = false never calls             *)
(* onEntitySelected; with a null entity it clears the selection; with an   *)
(* id no item of the tree carries it leaves the selection as it was.       *)
C39_SilentSelectEntityById ==
    [][last'.op = "SelectEntityById" =>
          /\ ~last'.arg[2] => last'.ret = <<>>
          /\ last'.arg[1] = Null =>
                 selectedItem' = Null /\ Marked' = {}
          /\ (/\ last'.arg[1] # Null
              /\ EntityIdOf(Val(last'.arg[1])) \notin TreeIds) =>
                 selectedItem' = selectedItem /\ Marked' = Marked]_vars

(* With onEntitySelected installed, a silent SelectEntityById moved the    *)
(* selection to an item of the tree and called nothing.                    *)
C39_Witness ==
    /\ last.op = "SelectEntityById"
    /\ last.arg[1] # Null /\ ~last.arg[2]
    /\ callbacks = Some({"onEntitySelected"})
    /\ selectedItem # Null
    /\ treeItems[Val(selectedItem)].entityData.entityId
           = EntityIdOf(Val(last.arg[1]))
    /\ last.ret = <<>>

---------------------------------------------------------------------------
(* C40: at most one tree item is marked selected and it is selectedItem;   *)
(* after Clear or Fill no item is marked and selectedItem is null.         *)
C40_OneSelectedItem ==
    /\ Cardinality(Marked) <= 1
    /\ Marked = (IF selectedItem = Null THEN {} ELSE {Val(selectedItem)})
    /\ last.op \in {"Clear", "Fill"} => Marked = {} /\ selectedItem = Null

(* A click moved the selection from one item of a tree of three to         *)
(* another: the clicked item is the only one marked.                       *)
C40_Witness ==
    /\ last.op = "SetSelection"
    /\ Len(treeItems) >= 3
    /\ Marked = {last.arg}
    /\ selectedItem = Some(last.arg)
    /\ \E i \in 1..Len(treeItems) : i # last.arg /\ treeItems[i].expanded

====
